---- MODULE Spec2Model ----
(***************************************************************************)
(* A model of the woflang core interpreter (cpp-v10.1.1/src/core):         *)
(* the tagged value WofValue, the operand stack, the operation registry,   *)
(* the tokenizer simple_tokenize and the dispatcher dispatch_token /       *)
(* exec_line, the typed pops, the plugin loader (load_plugin, load_plugins *)
(* and the destructor) and the REPL, together with the stack plugin        *)
(* operations of plugins/util/stack_ops.cpp that are registered into the   *)
(* registry.                                                               *)
(*                                                                         *)
(* Text (std::string) is a sequence of one-character strings, so that the  *)
(* tokenizer and the literal grammars work on characters as the code does. *)
(* A double is an exact rational, an infinity or a NaN: rounding and the   *)
(* sign of zero are abstracted (no line of the model leaves the range in   *)
(* which the arithmetic is exact for the claims checked here).             *)
(***************************************************************************)
EXTENDS Integers, Sequences, FiniteSets, TLC

(***************************************************************************)
(* Bounds of the model.                                                    *)
(***************************************************************************)
\* the stack never grows beyond this depth (a push beyond it is not explored)
MaxDepth == 3
\* number of register_op calls made after construction in one session
MaxRegs == 2
\* number of source lines (exec_line or dispatch_token calls) run in one session
MaxLines == 1
\* the depth of the stack where the value operations are applied to it
MaxOperands == 2
\* the number of load_plugin and load_plugins calls after which no further one is started
MaxLoads == 2
\* the number of input lines after which the REPL reads no further line
MaxInputs == 3
\* the number of calls a session of mixed calls makes on the registry and the front ends
MaxCalls == 3

(***************************************************************************)
(* Characters.                                                             *)
(***************************************************************************)
DigitChars == {"0", "1", "2", "3", "4", "5", "6", "7", "8", "9"}

\* std::isdigit
isdigit(c) == c \in DigitChars

\* std::isspace in the C locale, over the characters of the model
isspace(c) == c \in {" ", "\t", "\n", "\r", "\f"}

DigitVal(c) ==
    CASE c = "0" -> 0 [] c = "1" -> 1 [] c = "2" -> 2 [] c = "3" -> 3
      [] c = "4" -> 4 [] c = "5" -> 5 [] c = "6" -> 6 [] c = "7" -> 7
      [] c = "8" -> 8 [] c = "9" -> 9

DigitChar(n) ==
    CASE n = 0 -> "0" [] n = 1 -> "1" [] n = 2 -> "2" [] n = 3 -> "3"
      [] n = 4 -> "4" [] n = 5 -> "5" [] n = 6 -> "6" [] n = 7 -> "7"
      [] n = 8 -> "8" [] n = 9 -> "9"

Abs(n) == IF n < 0 THEN -n ELSE n

RECURSIVE Pow10(_)
Pow10(k) == IF k <= 0 THEN 1 ELSE 10 * Pow10(k - 1)

RECURSIVE Gcd(_, _)
Gcd(a, b) == IF b = 0 THEN a ELSE Gcd(b, a % b)

\* the decimal digits of a natural number, most significant first
RECURSIVE NatDigits(_)
NatDigits(n) ==
    IF n < 10 THEN <<DigitChar(n)>>
    ELSE Append(NatDigits(n \div 10), DigitChar(n % 10))

\* std::to_string(std::int64_t)
IntToString(i) == IF i < 0 THEN <<"-">> \o NatDigits(-i) ELSE NatDigits(i)

(***************************************************************************)
(* double: a finite rational num/den in lowest terms (den > 0), an         *)
(* infinity (num = 1 or -1) or a NaN.                                      *)
(***************************************************************************)
DFin(n, d) ==
    LET g == Gcd(Abs(n), Abs(d))
        s == IF d < 0 THEN -1 ELSE 1
    IN  [cls |-> "fin", num |-> (s * n) \div g, den |-> (s * d) \div g]

DInf(sign) == [cls |-> "inf", num |-> sign, den |-> 1]
DNaN == [cls |-> "nan", num |-> 0, den |-> 1]
DZero == DFin(0, 1)

Sign(n) == IF n < 0 THEN -1 ELSE IF n > 0 THEN 1 ELSE 0

\* operator== on double (IEEE: a NaN equals nothing, itself included)
DEq(x, y) == x.cls # "nan" /\ y.cls # "nan" /\ x = y

DNeg(x) == IF x.cls = "nan" THEN x ELSE [x EXCEPT !.num = -x.num]

\* operator+ on double
DAdd(x, y) ==
    IF x.cls = "nan" \/ y.cls = "nan" THEN DNaN
    ELSE IF x.cls = "inf" /\ y.cls = "inf"
         THEN (IF x.num = y.num THEN x ELSE DNaN)
    ELSE IF x.cls = "inf" THEN x
    ELSE IF y.cls = "inf" THEN y
    ELSE DFin(x.num * y.den + y.num * x.den, x.den * y.den)

\* operator- on double
DSub(x, y) == DAdd(x, DNeg(y))

\* operator* on double
DMul(x, y) ==
    IF x.cls = "nan" \/ y.cls = "nan" THEN DNaN
    ELSE IF x.cls = "inf" \/ y.cls = "inf"
         THEN (IF x.num = 0 \/ y.num = 0 THEN DNaN
               ELSE DInf(Sign(x.num) * Sign(y.num)))
    ELSE DFin(x.num * y.num, x.den * y.den)

\* operator/ on double
DDiv(x, y) ==
    IF x.cls = "nan" \/ y.cls = "nan" THEN DNaN
    ELSE IF x.cls = "inf"
         THEN (IF y.cls = "inf" THEN DNaN
               ELSE DInf(Sign(x.num) * (IF y.num < 0 THEN -1 ELSE 1)))
    ELSE IF y.cls = "inf" THEN DZero
    ELSE IF y.num = 0
         THEN (IF x.num = 0 THEN DNaN ELSE DInf(Sign(x.num)))
    ELSE DFin(x.num * y.den, x.den * y.num)

\* static_cast<double>(std::int64_t)
IntToDouble(i) == DFin(i, 1)

(***************************************************************************)
(* operator<< (std::ostream, double): %g with the default precision of 6   *)
(* significant digits.                                                     *)
(***************************************************************************)
\* the decimal exponent of n/d > 0: the X with 10^X <= n/d < 10^(X+1)
RECURSIVE Exp10(_, _)
Exp10(n, d) ==
    IF n >= 10 * d THEN 1 + Exp10(n, 10 * d)
    ELSE IF n < d THEN Exp10(10 * n, d) - 1
    ELSE 0

\* n/d rounded to the nearest integer, ties to even
RoundDiv(n, d) ==
    LET q == n \div d
        r == n % d
    IN  IF 2 * r > d \/ (2 * r = d /\ q % 2 = 1) THEN q + 1 ELSE q

RECURSIVE StripZeros(_)
StripZeros(s) ==
    IF s # <<>> /\ s[Len(s)] = "0" THEN StripZeros(SubSeq(s, 1, Len(s) - 1)) ELSE s

RECURSIVE Zeros(_)
Zeros(k) == IF k <= 0 THEN <<>> ELSE <<"0">> \o Zeros(k - 1)

\* the six significant digits m of n/d > 0 (rounded at decimal exponent x0) and its
\* decimal exponent after rounding
Rounded(m, x0) ==
    IF m >= 1000000 THEN [x |-> x0 + 1, digs |-> NatDigits(100000)]
    ELSE [x |-> x0, digs |-> NatDigits(m)]

SigDigitsAt(n, d, x0) ==
    Rounded(IF x0 <= 5 THEN RoundDiv(n * Pow10(5 - x0), d)
            ELSE RoundDiv(n, d * Pow10(x0 - 5)),
            x0)

SigDigits(n, d) == SigDigitsAt(n, d, Exp10(n, d))

\* the digits ds with decimal exponent x in the %g style: scientific when the
\* exponent is below -4 or at least the precision, fixed otherwise; trailing
\* zeros removed
FormatDigits(x, ds) ==
    IF x < -4 \/ x >= 6
    THEN <<ds[1]>>
         \o (IF StripZeros(SubSeq(ds, 2, 6)) = <<>> THEN <<>>
             ELSE <<".">> \o StripZeros(SubSeq(ds, 2, 6)))
         \o <<"e", IF x < 0 THEN "-" ELSE "+">>
         \o (IF Abs(x) < 10 THEN <<"0">> ELSE <<>>) \o NatDigits(Abs(x))
    ELSE IF x >= 0
    THEN SubSeq(ds, 1, x + 1)
         \o (IF StripZeros(SubSeq(ds, x + 2, 6)) = <<>> THEN <<>>
             ELSE <<".">> \o StripZeros(SubSeq(ds, x + 2, 6)))
    ELSE <<"0", ".">> \o Zeros(-x - 1) \o StripZeros(ds)

FormatRec(sd) == FormatDigits(sd.x, sd.digs)

FormatG(n, d) == FormatRec(SigDigits(n, d))

DoubleToString(x) ==
    IF x.cls = "nan" THEN <<"n", "a", "n">>
    ELSE IF x.cls = "inf"
         THEN (IF x.num < 0 THEN <<"-">> ELSE <<>>) \o <<"i", "n", "f">>
    ELSE IF x.num = 0 THEN <<"0">>
    ELSE (IF x.num < 0 THEN <<"-">> ELSE <<>>) \o FormatG(Abs(x.num), x.den)

(***************************************************************************)
(* WofValue: the tag `type`, the variant `value` (one field per            *)
(* alternative, the inactive ones at their default) and the optional unit  *)
(* (the empty sequence for a null pointer, else a one-element sequence).   *)
(***************************************************************************)
NoUnit == <<>>
UnitInfo(name, scale) == <<[name |-> name, scale |-> scale]>>

\* WofValue() = default
WofUnknown ==
    [type |-> "Unknown", i |-> 0, d |-> DZero, b |-> FALSE, s |-> <<>>, unit |-> NoUnit]

make_int(v) == [WofUnknown EXCEPT !.type = "Integer", !.i = v]
make_double(v) == [WofUnknown EXCEPT !.type = "Double", !.d = v]
make_string(s) == [WofUnknown EXCEPT !.type = "String", !.s = s]
make_symbol(s) == [WofUnknown EXCEPT !.type = "Symbol", !.s = s]
\* explicit WofValue(bool)
WofBool(b) == [WofUnknown EXCEPT !.type = "Bool", !.b = b]
\* a value whose public member `unit` has been set
WithUnit(v, u) == [v EXCEPT !.unit = u]

\* operator== without the comparison of the unit tags
WofEq_IgnoreUnit(a, b) ==
    a.type = b.type /\ a.type # "Bool" /\ a.i = b.i /\ a.s = b.s
    /\ (a.type = "Double" => a.d.cls # "nan" /\ a.d = b.d)

\* WofValue::operator==
WofEq(a, b) ==
    IF a.type # b.type THEN FALSE
    ELSE IF a.unit # NoUnit /\ b.unit # NoUnit
            /\ (a.unit[1].name # b.unit[1].name \/ ~DEq(a.unit[1].scale, b.unit[1].scale))
         THEN FALSE
    ELSE IF (a.unit # NoUnit /\ b.unit = NoUnit) \/ (a.unit = NoUnit /\ b.unit # NoUnit)
         THEN FALSE
    ELSE CASE a.type = "Unknown" -> TRUE
           [] a.type = "Integer" -> a.i = b.i
           [] a.type = "Double" -> DEq(a.d, b.d)
           [] a.type \in {"String", "Symbol"} -> a.s = b.s
           [] OTHER -> FALSE

\* WofValue::to_string
to_string(v) ==
    CASE v.type = "Unknown" -> <<"<", "u", "n", "k", "n", "o", "w", "n", ">">>
      [] v.type = "Integer" -> IntToString(v.i)
      [] v.type = "Double" -> DoubleToString(v.d)
      [] v.type = "String" -> <<"\"">> \o v.s \o <<"\"">>
      [] v.type = "Symbol" -> v.s
      [] OTHER -> <<"<", "i", "n", "v", "a", "l", "i", "d", ">">>

\* WofValue::is_numeric
is_numeric(v) == v.type = "Integer" \/ v.type = "Double"

\* as_numeric that has no number for a value that holds text
as_numeric_Strict(v) ==
    CASE v.type = "Integer" -> DFin(v.i, 1)
      [] v.type = "Double" -> v.d
      [] OTHER -> DNaN

\* WofValue::as_numeric
as_numeric(v) ==
    CASE v.type = "Integer" -> IntToDouble(v.i)
      [] v.type = "Double" -> v.d
      [] v.type \in {"String", "Symbol"} -> DZero
      [] v.type = "Unknown" -> DZero
      [] OTHER -> DZero

(***************************************************************************)
(* The literal grammars of woflang.cpp and the C library conversions they  *)
(* rest on.                                                                *)
(***************************************************************************)
\* the character at position i of t (1-based), the terminating NUL past the end
CharAt(t, i) == IF i >= 1 /\ i <= Len(t) THEN t[i] ELSE "NUL"

\* the position after the run of decimal digits that starts at position i
RECURSIVE SkipDigits(_, _)
SkipDigits(t, i) == IF isdigit(CharAt(t, i)) THEN SkipDigits(t, i + 1) ELSE i

\* the position after the run of white space that starts at position i
RECURSIVE SkipSpace(_, _)
SkipSpace(t, i) == IF isspace(CharAt(t, i)) THEN SkipSpace(t, i + 1) ELSE i

\* the value of a sequence of decimal digits
RECURSIVE DecValue(_)
DecValue(ds) ==
    IF ds = <<>> THEN 0
    ELSE 10 * DecValue(SubSeq(ds, 1, Len(ds) - 1)) + DigitVal(ds[Len(ds)])

RECURSIVE StripLeadingZeros(_)
StripLeadingZeros(ds) ==
    IF Len(ds) > 1 /\ ds[1] = "0" THEN StripLeadingZeros(Tail(ds)) ELSE ds

\* is_integer (anonymous namespace)
is_integer(token) ==
    IF token = <<>> THEN FALSE
    ELSE LET i == IF token[1] = "-" \/ token[1] = "+" THEN 1 ELSE 0
         IN  IF i = Len(token) THEN FALSE
             ELSE \A k \in (i + 1)..Len(token) : isdigit(token[k])

\* the decimal digits of the largest std::int64_t, 9223372036854775807
Int64MaxDigits ==
    <<"9", "2", "2", "3", "3", "7", "2", "0", "3", "6",
      "8", "5", "4", "7", "7", "5", "8", "0", "7">>

\* a > b for two digit sequences of the same length
RECURSIVE DigitsGreater(_, _)
DigitsGreater(a, b) ==
    IF a = <<>> THEN FALSE
    ELSE IF a[1] # b[1] THEN DigitVal(a[1]) > DigitVal(b[1])
    ELSE DigitsGreater(Tail(a), Tail(b))

\* std::stoll on a token that is_integer accepts: the value, or the
\* std::out_of_range it throws when the value does not fit in 64 bits
stoll(token) ==
    LET neg == token[1] = "-"
        ds == StripLeadingZeros(IF token[1] \in {"-", "+"} THEN Tail(token) ELSE token)
        lim == IF neg THEN [Int64MaxDigits EXCEPT ![19] = "8"] ELSE Int64MaxDigits
        over == Len(ds) > 19 \/ (Len(ds) = 19 /\ DigitsGreater(ds, lim))
    IN  IF over THEN [err |-> "stoll", val |-> 0]
        ELSE [err |-> "", val |-> (IF neg THEN -1 ELSE 1) * DecValue(ds)]

\* does the text w start at position i of t
Matches(t, i, w) == i + Len(w) - 1 <= Len(t) /\ SubSeq(t, i, i + Len(w) - 1) = w

\* the value sgn * mant * 10^scale
Scaled(sgn, mant, scale) ==
    IF scale >= 0 THEN DFin(sgn * mant * Pow10(scale), 1)
    ELSE DFin(sgn * mant, Pow10(-scale))

\* strtod, the exponent part: the mantissa ended before position b; e1 is the
\* position of the first exponent digit if t[b] is "e", and e2 the position after
\* the exponent digits
StrtodExp(t, sgn, mant, nfrac, b, e1, e2) ==
    IF CharAt(t, b) = "e" /\ e2 > e1
    THEN [end |-> e2 - 1,
          val |-> Scaled(sgn, mant,
                         (IF CharAt(t, b + 1) = "-" THEN -1 ELSE 1)
                             * DecValue(SubSeq(t, e1, e2 - 1)) - nfrac)]
    ELSE [end |-> b - 1, val |-> Scaled(sgn, mant, -nfrac)]

\* strtod, the mantissa: integer digits in p1..a-1, fraction digits in a+1..b-1
\* when t[a] is "."
StrtodMant(t, sgn, p1, a, b) ==
    IF (a - p1) + (IF b > a THEN b - a - 1 ELSE 0) < 1
    THEN [end |-> 0, val |-> DZero]
    ELSE StrtodExp(t, sgn,
                   DecValue(SubSeq(t, p1, a - 1) \o SubSeq(t, a + 1, b - 1)),
                   IF b > a THEN b - a - 1 ELSE 0,
                   b,
                   IF CharAt(t, b + 1) \in {"-", "+"} THEN b + 2 ELSE b + 1,
                   SkipDigits(t, IF CharAt(t, b + 1) \in {"-", "+"} THEN b + 2 ELSE b + 1))

\* strtod after the white space and the sign: p1 is the position of the first
\* character of the number
StrtodBody(t, sgn, p1, a) ==
    IF Matches(t, p1, <<"i", "n", "f", "i", "n", "i", "t", "y">>)
    THEN [end |-> p1 + 7, val |-> DInf(sgn)]
    ELSE IF Matches(t, p1, <<"i", "n", "f">>)
    THEN [end |-> p1 + 2, val |-> DInf(sgn)]
    ELSE IF Matches(t, p1, <<"n", "a", "n">>)
    THEN [end |-> p1 + 2, val |-> DNaN]
    ELSE StrtodMant(t, sgn, p1, a,
                    IF CharAt(t, a) = "." THEN SkipDigits(t, a + 1) ELSE a)

StrtodSign(t, p0) ==
    IF CharAt(t, p0) \in {"-", "+"}
    THEN StrtodBody(t, IF CharAt(t, p0) = "-" THEN -1 ELSE 1, p0 + 1, SkipDigits(t, p0 + 1))
    ELSE StrtodBody(t, 1, p0, SkipDigits(t, p0))

\* std::strtod over the characters of the model (decimal forms with an optional
\* exponent, inf, infinity, nan): `end` is the number of characters consumed,
\* 0 when no conversion is performed, and `val` the converted value
strtod(t) == StrtodSign(t, SkipSpace(t, 1))

\* is_number (anonymous namespace)
is_number(token) ==
    IF token = <<>> THEN FALSE
    ELSE strtod(token).end = Len(token)

\* std::stod on a token that is_number accepts
stod(token) == strtod(token).val

\* simple_tokenize (anonymous namespace): the loop over the characters of the
\* line from position i, with the locals tokens, current and in_string
RECURSIVE TokenizeFrom(_, _, _, _, _)
TokenizeFrom(line, i, tokens, current, in_string) ==
    IF i > Len(line)
    THEN (IF current # <<>> THEN Append(tokens, current) ELSE tokens)
    ELSE LET ch == line[i]
         IN  IF in_string
             THEN (IF ch = "\""
                   THEN TokenizeFrom(line, i + 1, Append(tokens, current), <<>>, FALSE)
                   ELSE TokenizeFrom(line, i + 1, tokens, Append(current, ch), TRUE))
             ELSE IF isspace(ch)
             THEN (IF current # <<>>
                   THEN TokenizeFrom(line, i + 1, Append(tokens, current), <<>>, FALSE)
                   ELSE TokenizeFrom(line, i + 1, tokens, current, FALSE))
             ELSE IF ch = "\""
             THEN (IF current # <<>>
                   THEN TokenizeFrom(line, i + 1, Append(tokens, current), <<>>, TRUE)
                   ELSE TokenizeFrom(line, i + 1, tokens, current, TRUE))
             ELSE TokenizeFrom(line, i + 1, tokens, Append(current, ch), FALSE)

simple_tokenize(line) == TokenizeFrom(line, 1, <<>>, <<>>, FALSE)

(***************************************************************************)
(* The stack helpers of WoflangInterpreter, as functions of the stack.     *)
(* A result record carries the stack after the call and `err`, the what()  *)
(* of the exception the call threw ("" when it returned).                  *)
(***************************************************************************)
\* WoflangInterpreter::push
push(st, v) == Append(st, v)

\* WoflangInterpreter::stack_has
stack_has(st, n) == Len(st) >= n

\* pop without the emptiness check
pop_Unchecked(st) ==
    IF st = <<>>
    THEN [stack |-> st, val |-> WofUnknown, err |-> ""]
    ELSE [stack |-> SubSeq(st, 1, Len(st) - 1), val |-> st[Len(st)], err |-> ""]

\* WoflangInterpreter::pop
pop(st) ==
    IF st = <<>>
    THEN [stack |-> st, val |-> WofUnknown, err |-> "Stack underflow in pop()"]
    ELSE [stack |-> SubSeq(st, 1, Len(st) - 1), val |-> st[Len(st)], err |-> ""]

(***************************************************************************)
(* The typed pop wrappers.  Each returns the set of its possible outcomes   *)
(* [stack, err, val]: one outcome, except where the C++ conversion is       *)
(* undefined.  A returned value is tagged with its C++ type.                *)
(***************************************************************************)
\* no value: the result of a call that returns void or has thrown
NoValue == [kind |-> "void", i |-> 0, d |-> DZero, s |-> <<>>, b |-> FALSE]
IntValue(i) == [NoValue EXCEPT !.kind = "int64", !.i = i]
DoubleValue(d) == [NoValue EXCEPT !.kind = "double", !.d = d]
TextValue(s) == [NoValue EXCEPT !.kind = "string", !.s = s]
BoolValue(b) == [NoValue EXCEPT !.kind = "bool", !.b = b]

Returned(st, v) == [stack |-> st, err |-> "", val |-> v]
Thrown(st, e) == [stack |-> st, err |-> e, val |-> NoValue]

\* the integral part of a finite double (truncation toward zero)
Trunc(x) == Sign(x.num) * (Abs(x.num) \div x.den)

\* the values standing for "any int64" where a conversion is undefined
IndeterminateInts == {-1, 0, 1}

\* static_cast<std::int64_t>(double): undefined for a NaN or an infinity
CastToInt64(x) == IF x.cls = "fin" THEN {Trunc(x)} ELSE IndeterminateInts

\* pop_int after its pop()
PopIntBody(r) ==
    IF r.err # "" THEN {Thrown(r.stack, r.err)}
    ELSE IF r.val.type = "Integer" THEN {Returned(r.stack, IntValue(r.val.i))}
    ELSE IF r.val.type = "Double"
         THEN {Returned(r.stack, IntValue(n)) : n \in CastToInt64(r.val.d)}
    ELSE {Thrown(r.stack, "pop_int: value is not numeric")}

\* WoflangInterpreter::pop_int
pop_int(st) == PopIntBody(pop(st))

\* pop_double and pop_numeric after their pop()
PopDoubleBody(r) ==
    IF r.err # "" THEN {Thrown(r.stack, r.err)}
    ELSE {Returned(r.stack, DoubleValue(as_numeric(r.val)))}

\* WoflangInterpreter::pop_double
pop_double(st) == PopDoubleBody(pop(st))

\* WoflangInterpreter::pop_numeric
pop_numeric(st) == PopDoubleBody(pop(st))

PopStringBody(r) ==
    IF r.err # "" THEN {Thrown(r.stack, r.err)}
    ELSE IF r.val.type \in {"String", "Symbol"} THEN {Returned(r.stack, TextValue(r.val.s))}
    ELSE {Returned(r.stack, TextValue(to_string(r.val)))}

\* WoflangInterpreter::pop_string
pop_string(st) == PopStringBody(pop(st))

\* pop_symbol that accepts a String as pop_string does
PopSymbolBody_AnyText(r) ==
    IF r.err # "" THEN {Thrown(r.stack, r.err)}
    ELSE IF r.val.type \in {"String", "Symbol"} THEN {Returned(r.stack, TextValue(r.val.s))}
    ELSE {Thrown(r.stack, "pop_symbol: value is not a symbol")}

\* pop_symbol after its pop()
PopSymbolBody(r) ==
    IF r.err # "" THEN {Thrown(r.stack, r.err)}
    ELSE IF r.val.type = "Symbol" THEN {Returned(r.stack, TextValue(r.val.s))}
    ELSE {Thrown(r.stack, "pop_symbol: value is not a symbol")}

\* WoflangInterpreter::pop_symbol
pop_symbol(st) == PopSymbolBody(pop(st))

PopBoolBody(r) ==
    IF r.err # "" THEN {Thrown(r.stack, r.err)}
    ELSE IF r.val.type = "Integer" THEN {Returned(r.stack, BoolValue(r.val.i # 0))}
    ELSE IF r.val.type = "Double" THEN {Returned(r.stack, BoolValue(~DEq(r.val.d, DZero)))}
    ELSE IF r.val.type \in {"String", "Symbol"}
         THEN {Returned(r.stack, BoolValue(r.val.s # <<>> /\ r.val.s # <<"0">>
                                           /\ r.val.s # <<"f", "a", "l", "s", "e">>))}
    ELSE {Returned(r.stack, BoolValue(FALSE))}

\* WoflangInterpreter::pop_bool
pop_bool(st) == PopBoolBody(pop(st))

(***************************************************************************)
(* The operation handlers (WofOpHandler): the five lambdas registered by   *)
(* the constructor and the stack operations of plugins/util/stack_ops.cpp. *)
(***************************************************************************)
\* the body of the lambda registered as "+" after its two pops: b was popped
\* first (the top), then a; rest is the stack below them
\* "+" that coerces its operands like "-" and "*"
AddBody_Coerce(rest, a, b) ==
    [stack |-> push(rest, make_double(DAdd(as_numeric(a), as_numeric(b)))), err |-> ""]

AddBody(rest, a, b) ==
    IF is_numeric(a) /\ is_numeric(b)
    THEN [stack |-> push(rest, make_double(DAdd(as_numeric(a), as_numeric(b)))), err |-> ""]
    ELSE [stack |-> push(rest, make_string(to_string(a) \o to_string(b))), err |-> ""]

\* "+" that pops its first operand before it checks the depth
OpAdd_PopFirst(st) ==
    IF st = <<>> THEN [stack |-> st, err |-> "Stack underflow for +"]
    ELSE IF ~stack_has(pop(st).stack, 1)
    THEN [stack |-> pop(st).stack, err |-> "Stack underflow for +"]
    ELSE AddBody(pop(pop(st).stack).stack, pop(pop(st).stack).val, pop(st).val)

\* the lambda registered as "+"
OpAdd(st) ==
    IF ~stack_has(st, 2) THEN [stack |-> st, err |-> "Stack underflow for +"]
    ELSE AddBody(pop(pop(st).stack).stack, pop(pop(st).stack).val, pop(st).val)

\* "-" with its operands exchanged
SubBody_Swapped(rest, a, b) ==
    [stack |-> push(rest, make_double(DSub(as_numeric(b), as_numeric(a)))), err |-> ""]

SubBody(rest, a, b) ==
    [stack |-> push(rest, make_double(DSub(as_numeric(a), as_numeric(b)))), err |-> ""]

\* the lambda registered as "-"
OpSub(st) ==
    IF ~stack_has(st, 2) THEN [stack |-> st, err |-> "Stack underflow for -"]
    ELSE SubBody(pop(pop(st).stack).stack, pop(pop(st).stack).val, pop(st).val)

MulBody(rest, a, b) ==
    [stack |-> push(rest, make_double(DMul(as_numeric(a), as_numeric(b)))), err |-> ""]

\* the lambda registered as "*"
OpMul(st) ==
    IF ~stack_has(st, 2) THEN [stack |-> st, err |-> "Stack underflow for *"]
    ELSE MulBody(pop(pop(st).stack).stack, pop(pop(st).stack).val, pop(st).val)

DivBody(rest, a, denom) ==
    IF DEq(denom, DZero)
    THEN [stack |-> rest, err |-> "Division by zero"]
    ELSE [stack |-> push(rest, make_double(DDiv(as_numeric(a), denom))), err |-> ""]

\* "/" that checks the divisor before it pops
OpDiv_CheckFirst(st) ==
    IF ~stack_has(st, 2) THEN [stack |-> st, err |-> "Stack underflow for /"]
    ELSE IF DEq(as_numeric(st[Len(st)]), DZero)
    THEN [stack |-> st, err |-> "Division by zero"]
    ELSE DivBody(pop(pop(st).stack).stack, pop(pop(st).stack).val, as_numeric(pop(st).val))

\* the lambda registered as "/"
OpDiv(st) ==
    IF ~stack_has(st, 2) THEN [stack |-> st, err |-> "Stack underflow for /"]
    ELSE DivBody(pop(pop(st).stack).stack, pop(pop(st).stack).val, as_numeric(pop(st).val))

\* the lambda registered as ".s": print_stack writes to std::cout only
OpDotS(st) == [stack |-> st, err |-> ""]

\* op_stack_dup (stack_ops.cpp)
op_stack_dup(st) ==
    IF st = <<>> THEN [stack |-> st, err |-> "stack_dup: stack is empty"]
    ELSE [stack |-> push(st, st[Len(st)]), err |-> ""]

\* op_stack_drop (stack_ops.cpp)
op_stack_drop(st) ==
    IF st = <<>> THEN [stack |-> st, err |-> "stack_drop: stack is empty"]
    ELSE [stack |-> pop(st).stack, err |-> ""]

\* op_stack_swap (stack_ops.cpp)
op_stack_swap(st) ==
    IF Len(st) < 2
    THEN [stack |-> st, err |-> "stack_swap: need at least two values on the stack"]
    ELSE [stack |-> SubSeq(st, 1, Len(st) - 2) \o <<st[Len(st)], st[Len(st) - 1]>>,
          err |-> ""]

\* op_stack_clear (stack_ops.cpp)
op_stack_clear(st) == [stack |-> <<>>, err |-> ""]

\* op_stack_depth (stack_ops.cpp)
op_stack_depth(st) == [stack |-> push(st, make_double(IntToDouble(Len(st)))), err |-> ""]

BuiltinHandlers == {"add", "sub", "mul", "div", "dot_s"}
PluginHandlers ==
    {"op_stack_dup", "op_stack_swap", "op_stack_drop", "op_stack_clear", "op_stack_depth"}

\* calling a WofOpHandler: it->second(*this)
CallHandler(h, st) ==
    CASE h = "add" -> OpAdd(st)
      [] h = "sub" -> OpSub(st)
      [] h = "mul" -> OpMul(st)
      [] h = "div" -> OpDiv(st)
      [] h = "dot_s" -> OpDotS(st)
      [] h = "op_stack_dup" -> op_stack_dup(st)
      [] h = "op_stack_drop" -> op_stack_drop(st)
      [] h = "op_stack_swap" -> op_stack_swap(st)
      [] h = "op_stack_clear" -> op_stack_clear(st)
      [] h = "op_stack_depth" -> op_stack_depth(st)

(***************************************************************************)
(* The registry `ops` (name -> handler) and the dispatcher.                *)
(***************************************************************************)
\* register_op that keeps an existing entry (insert instead of assign)
register_op_KeepFirst(reg, name, handler) ==
    [n \in (DOMAIN reg) \cup {name} |-> IF n \in DOMAIN reg THEN reg[n] ELSE handler]

\* WoflangInterpreter::register_op: ops[name] = std::move(handler)
register_op(reg, name, handler) ==
    [n \in (DOMAIN reg) \cup {name} |-> IF n = name THEN handler ELSE reg[n]]

\* the registry the constructor WoflangInterpreter() builds
ConstructorOps ==
    register_op(register_op(register_op(register_op(register_op(<<>>,
        <<"+">>, "add"), <<"-">>, "sub"), <<"*">>, "mul"), <<"/">>, "div"),
        <<".", "s">>, "dot_s")

\* dispatch_token, the integer literal: iv is the outcome of std::stoll
DispatchInteger(st, iv) ==
    IF iv.err # "" THEN [stack |-> st, err |-> iv.err, called |-> <<>>]
    ELSE [stack |-> push(st, make_int(iv.val)), err |-> "", called |-> <<>>]

\* dispatch_token, the registered operation: r is the outcome of it->second(*this)
DispatchOp(handler, r) == [stack |-> r.stack, err |-> r.err, called |-> <<handler>>]

\* dispatch_token with the registry lookup ahead of the numeric literals
dispatch_token_LookupFirst(token, st, reg) ==
    IF token # <<>> /\ token[1] = "\"" /\ token[Len(token)] = "\"" /\ Len(token) >= 2
    THEN [stack |-> push(st, make_string(SubSeq(token, 2, Len(token) - 1))),
          err |-> "", called |-> <<>>]
    ELSE IF token \in DOMAIN reg
    THEN DispatchOp(reg[token], CallHandler(reg[token], st))
    ELSE IF is_integer(token)
    THEN DispatchInteger(st, stoll(token))
    ELSE IF is_number(token)
    THEN [stack |-> push(st, make_double(stod(token))), err |-> "", called |-> <<>>]
    ELSE [stack |-> push(st, make_symbol(token)), err |-> "", called |-> <<>>]

\* the outcome r of a handler, followed by the push of the token as a Symbol
ThenSymbol(token, r) ==
    IF r.err # "" THEN r ELSE [r EXCEPT !.stack = push(r.stack, make_symbol(token))]

\* dispatch_token without the return after the handler call
dispatch_token_FallThrough(token, st, reg) ==
    IF token # <<>> /\ token[1] = "\"" /\ token[Len(token)] = "\"" /\ Len(token) >= 2
    THEN [stack |-> push(st, make_string(SubSeq(token, 2, Len(token) - 1))),
          err |-> "", called |-> <<>>]
    ELSE IF is_integer(token)
    THEN DispatchInteger(st, stoll(token))
    ELSE IF is_number(token)
    THEN [stack |-> push(st, make_double(stod(token))), err |-> "", called |-> <<>>]
    ELSE IF token \in DOMAIN reg
    THEN ThenSymbol(token, DispatchOp(reg[token], CallHandler(reg[token], st)))
    ELSE [stack |-> push(st, make_symbol(token)), err |-> "", called |-> <<>>]

\* WoflangInterpreter::dispatch_token: the stack after the call, the exception it
\* threw (if any) and the handlers it invoked
dispatch_token(token, st, reg) ==
    IF token # <<>> /\ token[1] = "\"" /\ token[Len(token)] = "\"" /\ Len(token) >= 2
    THEN [stack |-> push(st, make_string(SubSeq(token, 2, Len(token) - 1))),
          err |-> "", called |-> <<>>]
    ELSE IF is_integer(token)
    THEN DispatchInteger(st, stoll(token))
    ELSE IF is_number(token)
    THEN [stack |-> push(st, make_double(stod(token))), err |-> "", called |-> <<>>]
    ELSE IF token \in DOMAIN reg
    THEN DispatchOp(reg[token], CallHandler(reg[token], st))
    ELSE [stack |-> push(st, make_symbol(token)), err |-> "", called |-> <<>>]

(***************************************************************************)
(* The plugin loader, in the branch compiled where _WIN32 is not defined.  *)
(* A module file is described by what the loader can observe of it: its    *)
(* path `name`, whether dlopen succeeds (`opens`), whether it exports      *)
(* register_plugin (`reg`) and create_plugin (`create`), the register_op   *)
(* calls its entry point makes (`regs`), whether the entry point then      *)
(* throws (`throws`) and whether create_plugin returns nullptr (`null`).   *)
(* A handle is one reference obtained from dlopen, numbered from 1; 0 is   *)
(* the null handle.  The loader works on the members                       *)
(* [ops, handles, objects] and on the history dl of the calls it makes,    *)
(* and returns the set of its possible outcomes, `err` being the what() of *)
(* the exception thrown, "crash" the end of the process, "" a return.      *)
(***************************************************************************)
Ev(ev, h, arg) == [ev |-> ev, h |-> h, arg |-> arg]

\* the handle a successful dlopen returns
NextHandle(log) ==
    1 + Cardinality({j \in 1..Len(log) : log[j].ev = "dlopen" /\ log[j].h # 0})

Logged(b, evs) == [b EXCEPT !.dl = b.dl \o evs]
Raise(b, e) == [b EXCEPT !.err = e]

\* the register_op calls of an entry point, in order
RECURSIVE RegisterAll(_, _)
RegisterAll(reg, regs) ==
    IF regs = <<>> THEN reg
    ELSE RegisterAll(register_op(reg, regs[1][1], regs[1][2]), Tail(regs))

\* an entry point whose registrations replace those made since construction
Entered_Fresh(m, b) == [b EXCEPT !.ops = RegisterAll(ConstructorOps, m.regs)]

\* the members after the entry point of m has made its register_op calls
Entered(m, b) == [b EXCEPT !.ops = RegisterAll(b.ops, m.regs)]

\* load_plugin after register_func(*this): plugin_handles.push_back(handle), unless the
\* entry point threw
LoadRegistered(m, b, h) ==
    IF m.throws THEN {Raise(b, "register_plugin failed")}
    ELSE {[Logged(b, <<Ev("loaded", h, m.name)>>) EXCEPT !.handles = Append(b.handles, h)]}

\* load_plugin after plugin->register_ops(*this): the object and the handle are
\* recorded, unless register_ops threw (the unique_ptr then deletes the object)
LoadObject(m, b, h) ==
    IF m.throws THEN {Raise(Logged(b, <<Ev("delete", h, "")>>), "register_ops failed")}
    ELSE {[Logged(b, <<Ev("loaded", h, m.name)>>) EXCEPT
              !.objects = Append(b.objects, h), !.handles = Append(b.handles, h)]}

\* plugin->register_ops(*this) on the nullptr create_func() returned: undefined; the
\* process ends or the call has no effect and a null object is recorded
LoadNullObject(m, b, h) ==
    { Raise(b, "crash"),
      [Logged(b, <<Ev("loaded", h, m.name)>>) EXCEPT
          !.objects = Append(b.objects, 0), !.handles = Append(b.handles, h)] }

\* the else branch that releases the handle but keeps no trace of the failure
LoadCreate_NoThrow(m, b, h) ==
    IF ~m.create
    THEN {Logged(b, <<Ev("dlclose", h, "")>>)}
    ELSE LoadObject(m, Entered(m, Logged(b, <<Ev("call", h, "create_plugin"),
                                             Ev("call", h, "register_ops")>>)), h)

\* load_plugin's else branch after dlsym(handle, "create_plugin")
LoadCreate(m, b, h) ==
    IF ~m.create
    THEN {Raise(Logged(b, <<Ev("dlclose", h, "")>>),
                "No register_plugin/create_plugin in plugin")}
    ELSE IF m.null
         THEN LoadNullObject(m, Logged(b, <<Ev("call", h, "create_plugin")>>), h)
    ELSE LoadObject(m, Entered(m, Logged(b, <<Ev("call", h, "create_plugin"),
                                             Ev("call", h, "register_ops")>>)), h)

\* the look-ups in the other order: create_plugin first, register_plugin second
LoadEntry_CreateFirst(m, b, h) ==
    IF m.create
    THEN LoadObject(m, Entered(m, Logged(b, <<Ev("dlsym", h, "create_plugin"),
                                             Ev("call", h, "create_plugin"),
                                             Ev("call", h, "register_ops")>>)), h)
    ELSE IF m.reg
         THEN LoadRegistered(m, Entered(m, Logged(b, <<Ev("dlsym", h, "create_plugin"),
                                                      Ev("dlsym", h, "register_plugin"),
                                                      Ev("call", h, "register_plugin")>>)), h)
    ELSE {Raise(Logged(b, <<Ev("dlsym", h, "create_plugin"),
                            Ev("dlsym", h, "register_plugin"), Ev("dlclose", h, "")>>),
                "No register_plugin/create_plugin in plugin")}

\* load_plugin after dlopen succeeded: dlsym(handle, "register_plugin") and the branch
LoadEntry(m, b, h) ==
    IF m.reg
    THEN LoadRegistered(m, Entered(m, Logged(b, <<Ev("dlsym", h, "register_plugin"),
                                                 Ev("call", h, "register_plugin")>>)), h)
    ELSE LoadCreate(m, Logged(b, <<Ev("dlsym", h, "register_plugin"),
                                   Ev("dlsym", h, "create_plugin")>>), h)

\* load_plugin from its dlopen on
LoadOpen(m, b, h) ==
    IF ~m.opens
    THEN {Raise(Logged(b, <<Ev("dlopen", 0, m.name)>>), "Failed to load plugin")}
    ELSE LoadEntry(m, Logged(b, <<Ev("dlopen", h, m.name)>>), h)

\* WoflangInterpreter::load_plugin(path), m being the file at path
load_plugin(m, b) ==
    LoadOpen(m, Logged(b, <<Ev("load_plugin", 0, m.name)>>), NextHandle(b.dl))

\* the extensions load_plugins takes for a module
ModuleExtensions == {".so", ".dylib"}

\* the filter of load_plugins without the is_regular_file test
Wanted_AnyKind(e) == e.ext \in ModuleExtensions

\* the entries load_plugins passes to load_plugin
Wanted(e) == e.kind = "file" /\ e.ext \in ModuleExtensions

\* the loop with a catch around each load_plugin call, going on to the next entry
RECURSIVE ScanFrom_CatchPerFile(_, _, _)
ScanFrom_CatchPerFile(entries, k, b) ==
    IF k > Len(entries) THEN {b}
    ELSE IF ~Wanted(entries[k]) THEN ScanFrom_CatchPerFile(entries, k + 1, b)
    ELSE UNION { IF r.err = "crash" THEN {r}
                 ELSE ScanFrom_CatchPerFile(entries, k + 1, Raise(r, "")) :
                 r \in load_plugin(entries[k].module, b) }

\* the loop of load_plugins from the k-th entry on; an exception leaves the loop
RECURSIVE ScanFrom(_, _, _)
ScanFrom(entries, k, b) ==
    IF k > Len(entries) THEN {b}
    ELSE IF ~Wanted(entries[k]) THEN ScanFrom(entries, k + 1, b)
    ELSE UNION { IF r.err # "" THEN {r} ELSE ScanFrom(entries, k + 1, r) :
                 r \in load_plugin(entries[k].module, b) }

\* WoflangInterpreter::load_plugins(dir), d being what is at the path dir
load_plugins(d, b) ==
    IF ~d.exists \/ ~d.isdir THEN {Logged(b, <<Ev("load_plugins", 0, d.name)>>)}
    ELSE ScanFrom(d.entries, 1, Logged(b, <<Ev("load_plugins", 0, d.name)>>))

NonNull(h) == h # 0

\* the loop of the destructor that leaves the last handle open
CloseAll_ButLast(handles) ==
    [j \in 1..(Len(SelectSeq(handles, NonNull)) - 1) |->
        Ev("dlclose", SelectSeq(handles, NonNull)[j], "")]

\* the loop of the destructor: dlclose(handle) for every non-null recorded handle
CloseAll(handles) ==
    [j \in 1..Len(SelectSeq(handles, NonNull)) |->
        Ev("dlclose", SelectSeq(handles, NonNull)[j], "")]

\* the destruction of plugin_objects: each non-null object is deleted
RECURSIVE DeleteAll(_)
DeleteAll(objects) ==
    IF objects = <<>> THEN <<>>
    ELSE (IF objects[1] = 0 THEN <<>> ELSE <<Ev("delete", objects[1], "")>>)
         \o DeleteAll(Tail(objects))

(***************************************************************************)
(* Inputs: the names and handlers passed to register_op, the source lines  *)
(* passed to exec_line, the tokens passed to dispatch_token and the values *)
(* passed to push.                                                         *)
(***************************************************************************)
SP == <<" ">>
QUOTE == <<"\"">>
W_4 == <<"4">>
W_0 == <<"0">>
W_42 == <<"4", "2">>
W_plus == <<"+">>
W_slash == <<"/">>
W_foo == <<"f", "o", "o">>
W_dup == <<"d", "u", "p">>
W_hello_world == <<"h", "e", "l", "l", "o", " ", "w", "o", "r", "l", "d">>
W_big == <<"9", "9", "9", "9", "9", "9", "9", "9", "9", "9",
           "9", "9", "9", "9", "9", "9", "9", "9", "9", "9">>

Words == {W_4, W_0, W_plus, W_slash, W_foo}

Line_hello_dup == QUOTE \o W_hello_world \o QUOTE \o SP \o W_dup
Line_3_4_plus == <<"3", " ", "4", " ", "+">>
Line_5_0_div == <<"5", " ", "0", " ", "/">>
Line_q42 == QUOTE \o W_42 \o QUOTE
Line_qplus == <<"4", " ", "4", " ">> \o QUOTE \o W_plus \o QUOTE

ScenarioLines ==
    { Line_hello_dup, Line_3_4_plus, Line_5_0_div, Line_q42, Line_qplus,
      <<"4", " ", "4", " ", "4", " ", "*">>,
      <<"2", ".", "5", " ", "-", "1", " ", "-">>,
      <<"5", " ", "2", " ", "/">>,
      <<"4", " ", "f", "o", "o", " ", "/">>,
      <<"4", " ", "0", ".", "0", " ", "/", " ", "4">>,
      <<"4", " ">> \o W_big \o <<" ", "4">>,
      <<"i", "n", "f", " ", "n", "a", "n", " ", "*">>,
      <<"4", " ", "n", "a", "n", " ", "/">>,
      <<"\t", "4", " ", " ", ".", "s", " ", "d", "u", "p", " ", "+">>,
      <<"4", "2", " ", "f", "o", "o", " ", "-">>,
      <<"b", "a", "r", " ", "f", "o", "o">>,
      QUOTE \o QUOTE,
      QUOTE \o <<" ", "4">> \o QUOTE,
      <<"f", "o", "o">> \o QUOTE \o <<"4", " ", "4">> }

\* the source lines passed to exec_line
Lines ==
    ScenarioLines \cup Words \cup {w1 \o SP \o w2 : w1 \in Words, w2 \in Words}

\* the tokens passed to dispatch_token by a direct caller
DirectTokens ==
    { W_42, W_foo, W_plus, W_dup, QUOTE \o W_42 \o QUOTE, QUOTE \o W_foo, QUOTE, <<>> }

\* the (name, handler) pairs passed to register_op after construction
RegChoices ==
    { <<W_foo, "op_stack_dup">>, <<W_foo, "op_stack_drop">>, <<W_42, "op_stack_drop">>,
      <<W_dup, "op_stack_dup">>, <<W_plus, "op_stack_drop">> }

\* the values passed to push by a direct caller
PushValues ==
    { make_int(2), make_double(DFin(2, 1)), make_double(DNaN),
      make_string(<<"a">>), make_symbol(<<"a">>), WofBool(FALSE), WofUnknown,
      WithUnit(make_int(2), UnitInfo(<<"g">>, DFin(1, 1))) }

\* the values the typed pops, operator== and as_numeric are applied to
Values ==
    PushValues \cup
    { make_int(-3), make_double(DFin(5, 2)), make_double(DFin(-5, 2)), make_double(DInf(1)),
      make_symbol(<<>>), WithUnit(make_int(2), UnitInfo(<<"k", "g">>, DFin(1, 1))) }

\* the lines typed at the prompt of the REPL
W_quit == <<"q", "u", "i", "t">>
W_clear == <<"c", "l", "e", "a", "r">>
W_show == <<"s", "h", "o", "w">>
ReplInputs ==
    { W_quit, W_clear, W_show, W_4, W_plus, W_foo, Line_3_4_plus, Line_5_0_div,
      <<"3", " ", "+", " ", "4">>, <<"4", " ">> \o W_big, <<>> }

\* the script files passed to exec_script: whether the file can be opened, and its text
Script(name, readable, text) == [name |-> name, readable |-> readable, text |-> text]
NL == <<"\n">>
S_missing == Script("missing.wof", FALSE, <<>>)
S_empty == Script("empty.wof", TRUE, <<>>)
S_sum == Script("sum.wof", TRUE, Line_3_4_plus \o NL \o W_4 \o NL)
\* a script whose second line fails (`+` on one operand) and is not its last line
S_fail == Script("fail.wof", TRUE, W_4 \o NL \o W_plus \o NL \o W_foo)
S_show == Script("show.wof", TRUE, W_show \o <<"\r">> \o NL \o W_foo \o NL)
Scripts == {S_missing, S_empty, S_sum, S_fail, S_show}

\* the (name, handler) pairs registered by the host before a front end is run
FrontRegs == { <<W_show, "op_stack_depth">>, <<W_foo, "op_stack_depth">> }

\* the lines typed at the prompt of a REPL with these operations
FrontInputs == { W_show, W_clear, W_foo, W_plus, W_quit }

\* the module files passed to load_plugin
Module(name, opens, reg, create, regs, throws, null) ==
    [name |-> name, opens |-> opens, reg |-> reg, create |-> create, regs |-> regs,
     throws |-> throws, null |-> null]

W_stack == <<"s", "t", "a", "c", "k", "_">>

\* plugins/util/stack_ops.cpp built as a module
StackOpsModule(name) ==
    Module(name, TRUE, TRUE, FALSE,
           << <<W_stack \o <<"d", "u", "p">>, "op_stack_dup">>,
              <<W_stack \o <<"s", "w", "a", "p">>, "op_stack_swap">>,
              <<W_stack \o <<"d", "r", "o", "p">>, "op_stack_drop">>,
              <<W_stack \o <<"c", "l", "e", "a", "r">>, "op_stack_clear">>,
              <<W_stack \o <<"d", "e", "p", "t", "h">>, "op_stack_depth">> >>,
           FALSE, FALSE)

\* a module of the older generation: create_plugin only
LegacyModule(name) ==
    Module(name, TRUE, FALSE, TRUE, << <<W_dup, "op_stack_dup">> >>, FALSE, FALSE)

M_stack_ops == StackOpsModule("stack_ops.so")
M_legacy == LegacyModule("legacy.so")
\* a module that exports both entry points
M_both == Module("both.so", TRUE, TRUE, TRUE, << <<W_plus, "op_stack_drop">> >>, FALSE, FALSE)
\* a shared object that exports neither entry point
M_none == Module("none.so", TRUE, FALSE, FALSE, <<>>, FALSE, FALSE)
\* a path dlopen cannot open
M_missing == Module("missing.so", FALSE, FALSE, FALSE, <<>>, FALSE, FALSE)
\* modules whose entry point throws after a register_op call
M_throwing == Module("throwing.so", TRUE, TRUE, FALSE, << <<W_foo, "op_stack_dup">> >>, TRUE, FALSE)
M_legacy_throwing ==
    Module("legacy_throwing.so", TRUE, FALSE, TRUE, << <<W_foo, "op_stack_dup">> >>, TRUE, FALSE)
\* a module whose create_plugin returns nullptr
M_null == Module("null.so", TRUE, FALSE, TRUE, <<>>, FALSE, TRUE)

Modules ==
    {M_stack_ops, M_legacy, M_both, M_none, M_missing, M_throwing, M_legacy_throwing, M_null}

\* a directory entry: its file name, its kind ("file" for a regular file, "dir" for a
\* directory), its extension, the module the file is and, for a directory, its entries
Entry(name, kind, ext, module, children) ==
    [name |-> name, kind |-> kind, ext |-> ext, module |-> module, children |-> children]

FileEntry(m, ext) == Entry(m.name, "file", ext, m, <<>>)

\* what is at a path passed to load_plugins
Dir(name, exists, isdir, entries) ==
    [name |-> name, exists |-> exists, isdir |-> isdir, entries |-> entries]

D_missing == Dir("nowhere", FALSE, FALSE, <<>>)
D_file == Dir("stack_ops.so", TRUE, FALSE, <<>>)
D_empty == Dir("empty", TRUE, TRUE, <<>>)
\* a module, a directory named like a module that holds one, a text file that is a
\* module under another name, and a module with the other extension
D_plugins ==
    Dir("plugins", TRUE, TRUE,
        << FileEntry(M_stack_ops, ".so"),
           Entry("sub.so", "dir", ".so", M_missing, <<FileEntry(M_legacy, ".so")>>),
           FileEntry(Module("notes.txt", TRUE, TRUE, TRUE, << <<W_plus, "op_stack_drop">> >>,
                            FALSE, FALSE), ".txt"),
           FileEntry(LegacyModule("legacy.dylib"), ".dylib") >>)
\* a directory whose second module exports no entry point
D_bad ==
    Dir("bad", TRUE, TRUE,
        << FileEntry(M_stack_ops, ".so"), FileEntry(M_none, ".so"),
           FileEntry(M_legacy, ".so") >>)

Dirs == {D_missing, D_file, D_empty, D_plugins, D_bad}

\* the module files there are, by path
AllModules ==
    Modules \cup UNION {{d.entries[k].module : k \in DOMAIN d.entries} : d \in Dirs}
ModuleAt(name) == CHOOSE m \in AllModules : m.name = name
DirAt(name) == CHOOSE d \in Dirs : d.name = name

(***************************************************************************)
(* The interpreter as a state machine.                                     *)
(***************************************************************************)
VARIABLES
    stack,    \* WoflangInterpreter::stack, bottom first
    ops,      \* WoflangInterpreter::ops
    pc,       \* "idle", or "exec_line" inside the loop of exec_line
    line,     \* the argument of the current or last exec_line
    tokens,   \* exec_line's local `tokens`
    pos,      \* the position in `tokens` of the token the loop is at
    call,     \* the public member function called last
    err,      \* what() of the exception the last call threw, "" if it returned
    ret,      \* the value the last pop returned
    stack0,   \* history: the stack when the last call was entered
    hist,     \* history: the dispatch_token calls of the last exec_line
    latest,   \* history: for each name, the handler of its most recent register_op call
              \* made by the constructor or by the host
    nregs,    \* history: register_op calls made after construction
    nlines,   \* history: source lines run
    rv,       \* what the last call other than pop() returned
    plugin_handles,  \* WoflangInterpreter::plugin_handles
    plugin_objects,  \* WoflangInterpreter::plugin_objects
    dl,       \* history: the dynamic-loader and plugin calls made so far
    execd,    \* history: the exec_line calls of the last exec_script
    other,    \* a second WoflangInterpreter of the process: its stack and its ops
    statics   \* the variables of static storage duration of the loaded plugin modules

\* the members and histories the stack and dispatch operations leave alone
ext2 == <<execd, other, statics>>
ext == <<rv, plugin_handles, plugin_objects, dl, ext2>>

vars ==
    <<stack, ops, pc, line, tokens, pos, call, err, ret, stack0, hist, latest, nregs, nlines,
      ext>>


Idle == pc = "idle"

\* the state after construction
Init ==
    /\ stack = <<>>
    /\ ops = ConstructorOps
    /\ pc = "idle"
    /\ line = <<>>
    /\ tokens = <<>>
    /\ pos = 1
    /\ call = "WoflangInterpreter"
    /\ err = ""
    /\ ret = WofUnknown
    /\ stack0 = <<>>
    /\ hist = <<>>
    /\ latest = ConstructorOps
    /\ nregs = 0
    /\ nlines = 0
    /\ rv = NoValue
    /\ plugin_handles = <<>>
    /\ plugin_objects = <<>>
    /\ dl = <<>>
    /\ execd = <<>>
    /\ other = [stack |-> <<>>, ops |-> ConstructorOps]
    /\ statics = [chaos_unlocked |-> FALSE, g_repl_history |-> <<>>]

\* a call of register_op(name, handler)
RegisterOp(name, handler) ==
    /\ Idle
    /\ nregs < MaxRegs
    /\ ops' = register_op(ops, name, handler)
    /\ latest' = [n \in (DOMAIN latest) \cup {name} |-> IF n = name THEN handler ELSE latest[n]]
    /\ nregs' = nregs + 1
    /\ call' = "register_op"
    /\ err' = ""
    /\ stack0' = stack
    /\ hist' = <<>>
    /\ UNCHANGED <<ext, stack, pc, line, tokens, pos, ret, nlines>>

\* a call of push(v)
Push(v) ==
    /\ Idle
    /\ Len(stack) < MaxDepth
    /\ stack' = push(stack, v)
    /\ call' = "push"
    /\ err' = ""
    /\ stack0' = stack
    /\ hist' = <<>>
    /\ UNCHANGED <<ext, ops, pc, line, tokens, pos, ret, latest, nregs, nlines>>

\* a call of pop()
Pop ==
    /\ Idle
    /\ stack' = pop(stack).stack
    /\ ret' = pop(stack).val
    /\ err' = pop(stack).err
    /\ call' = "pop"
    /\ stack0' = stack
    /\ hist' = <<>>
    /\ UNCHANGED <<ext, ops, pc, line, tokens, pos, latest, nregs, nlines>>

\* a call of clear_stack()
ClearStack ==
    /\ Idle
    /\ stack' = <<>>
    /\ call' = "clear_stack"
    /\ err' = ""
    /\ stack0' = stack
    /\ hist' = <<>>
    /\ UNCHANGED <<ext, ops, pc, line, tokens, pos, ret, latest, nregs, nlines>>

\* a call of push(v) on a stack of fewer than MaxOperands values
PushOperand(v) ==
    /\ Len(stack) < MaxOperands
    /\ Push(v)

\* a call of a member function with the outcome r
Outcome(name, r) ==
    /\ Idle
    /\ stack' = r.stack
    /\ err' = r.err
    /\ rv' = r.val
    /\ call' = name
    /\ stack0' = stack
    /\ hist' = <<>>
    /\ UNCHANGED <<ops, pc, line, tokens, pos, ret, latest, nregs, nlines,
                   plugin_handles, plugin_objects, dl, ext2>>

\* calls of pop_int(), pop_double(), pop_numeric(), pop_string(), pop_symbol(), pop_bool()
PopInt == \E r \in pop_int(stack) : Outcome("pop_int", r)
PopDouble == \E r \in pop_double(stack) : Outcome("pop_double", r)
PopNumeric == \E r \in pop_numeric(stack) : Outcome("pop_numeric", r)
PopString == \E r \in pop_string(stack) : Outcome("pop_string", r)
PopSymbol == \E r \in pop_symbol(stack) : Outcome("pop_symbol", r)
PopBool == \E r \in pop_bool(stack) : Outcome("pop_bool", r)

\* a == b on the two values on top of the stack (stack[n - 2] == stack[n - 1])
Equal ==
    /\ Len(stack) >= 2
    /\ Outcome("operator==",
               Returned(stack, BoolValue(WofEq(stack[Len(stack) - 1], stack[Len(stack)]))))

\* stack.back().as_numeric()
AsNumeric ==
    /\ stack # <<>>
    /\ Outcome("as_numeric", Returned(stack, DoubleValue(as_numeric(stack[Len(stack)]))))

\* stack.back().is_numeric()
IsNumeric ==
    /\ stack # <<>>
    /\ Outcome("is_numeric", Returned(stack, BoolValue(is_numeric(stack[Len(stack)]))))

\* the members the plugin loader works on
Members ==
    [ops |-> ops, handles |-> plugin_handles, objects |-> plugin_objects, dl |-> dl,
     err |-> ""]

\* the load_plugin and load_plugins calls started so far
Loads(log) ==
    Cardinality({j \in 1..Len(log) : log[j].ev \in {"load_plugin", "load_plugins"}})

\* a call of a loader function with the outcome r
Loaded(name, r) ==
    /\ Idle
    /\ Loads(dl) < MaxLoads
    /\ ops' = r.ops
    /\ plugin_handles' = r.handles
    /\ plugin_objects' = r.objects
    /\ dl' = r.dl
    /\ err' = r.err
    /\ pc' = IF r.err = "crash" THEN "crashed" ELSE "idle"
    /\ call' = name
    /\ stack0' = stack
    /\ hist' = <<>>
    /\ UNCHANGED <<stack, line, tokens, pos, ret, latest, nregs, nlines, rv, ext2>>

\* a call of load_plugin(path)
LoadPlugin(m) == \E r \in load_plugin(m, Members) : Loaded("load_plugin", r)

\* a call of load_plugins(dir)
LoadPlugins(d) == \E r \in load_plugins(d, Members) : Loaded("load_plugins", r)

\* the destructor ends the process where it runs code of a module it has closed
DestroyOutcomes ==
    IF DeleteAll(plugin_objects) # <<>>
       \/ (plugin_handles # <<>> /\ \E n \in DOMAIN ops : ops[n] \in PluginHandlers)
    THEN {"", "crash"}
    ELSE {""}

\* ~WoflangInterpreter(): the loop over plugin_handles, then the members are destroyed
\* in the reverse order of their declaration (plugin_objects, plugin_handles, ops,
\* stack); the variables keep the last value of the members
Destroy ==
    /\ Idle
    /\ pc' = "destroyed"
    /\ call' = "~WoflangInterpreter"
    /\ dl' = dl \o <<Ev("~WoflangInterpreter", 0, "")>> \o CloseAll(plugin_handles)
                \o DeleteAll(plugin_objects) \o <<Ev("~ops", 0, "")>>
    /\ err' \in DestroyOutcomes
    /\ stack0' = stack
    /\ hist' = <<>>
    /\ UNCHANGED <<stack, ops, line, tokens, pos, ret, latest, nregs, nlines, rv,
                   plugin_handles, plugin_objects, ext2>>

\* the record of one dispatch_token call: the position and text of the token, the
\* stack before and after, the exception thrown and the handlers invoked
HistEntry(k, token, pre, r) ==
    [k |-> k, token |-> token, pre |-> pre, post |-> r.stack, err |-> r.err,
     called |-> r.called]

\* the effect of one dispatch_token call with outcome r, recorded after h
Dispatched(h, k, token, r) ==
    /\ Len(r.stack) <= MaxDepth
    /\ stack' = r.stack
    /\ err' = r.err
    /\ hist' = Append(h, HistEntry(k, token, stack, r))

\* a direct call of dispatch_token(token)
DispatchToken(token) ==
    /\ Idle
    /\ nlines < MaxLines
    /\ Dispatched(<<>>, 1, token, dispatch_token(token, stack, ops))
    /\ call' = "dispatch_token"
    /\ line' = <<>>
    /\ tokens' = <<token>>
    /\ pos' = 1
    /\ stack0' = stack
    /\ nlines' = nlines + 1
    /\ UNCHANGED <<ext, ops, pc, ret, latest, nregs>>

\* exec_line(l) is called: auto tokens = simple_tokenize(line)
ExecLine(l) ==
    /\ Idle
    /\ nlines < MaxLines
    /\ pc' = "exec_line"
    /\ call' = "exec_line"
    /\ line' = l
    /\ tokens' = simple_tokenize(l)
    /\ pos' = 1
    /\ err' = ""
    /\ stack0' = stack
    /\ hist' = <<>>
    /\ nlines' = nlines + 1
    /\ UNCHANGED <<ext, stack, ops, ret, latest, nregs>>

\* the loop of exec_line going on to the next token after an exception
DispatchStep_NoAbort ==
    /\ pc = "exec_line"
    /\ pos <= Len(tokens)
    /\ Dispatched(hist, pos, tokens[pos], dispatch_token(tokens[pos], stack, ops))
    /\ pos' = pos + 1
    /\ pc' = pc
    /\ UNCHANGED <<ext, ops, line, tokens, call, ret, stack0, latest, nregs, nlines>>

\* one iteration of exec_line's loop: dispatch_token(t); an exception leaves the
\* loop and exec_line, to the caller
DispatchStep ==
    /\ pc = "exec_line"
    /\ pos <= Len(tokens)
    /\ Dispatched(hist, pos, tokens[pos], dispatch_token(tokens[pos], stack, ops))
    /\ IF err' = ""
       THEN pos' = pos + 1 /\ pc' = pc
       ELSE pos' = pos /\ pc' = "idle"
    /\ UNCHANGED <<ext, ops, line, tokens, call, ret, stack0, latest, nregs, nlines>>

\* exec_line returns after the last token
ExecLineReturn ==
    /\ pc = "exec_line"
    /\ pos > Len(tokens)
    /\ pc' = "idle"
    /\ UNCHANGED <<ext, stack, ops, line, tokens, pos, call, err, ret, stack0, hist, latest,
                   nregs, nlines>>

\* exec_line as one call: the loop over simple_tokenize(line) from the k-th token on,
\* h being the record of the dispatch_token calls made so far
RECURSIVE RunTokens(_, _, _, _, _)
RECURSIVE RunNext(_, _, _, _, _, _)
RunNext(toks, k, reg, h, pre, r) ==
    IF r.err # ""
    THEN [stack |-> r.stack, err |-> r.err, hist |-> Append(h, HistEntry(k, toks[k], pre, r))]
    ELSE RunTokens(toks, k + 1, r.stack, reg, Append(h, HistEntry(k, toks[k], pre, r)))
RunTokens(toks, k, st, reg, h) ==
    IF k > Len(toks) THEN [stack |-> st, err |-> "", hist |-> h]
    ELSE RunNext(toks, k, reg, h, st, dispatch_token(toks[k], st, reg))

\* WoflangInterpreter::exec_line
exec_line(l, st, reg) == RunTokens(simple_tokenize(l), 1, st, reg, <<>>)

\* the greatest depth the stack has had during the dispatches recorded in h
RECURSIVE DeepestIn(_)
DeepestIn(h) ==
    IF h = <<>> THEN 0
    ELSE IF Len(h[1].post) > DeepestIn(Tail(h)) THEN Len(h[1].post) ELSE DeepestIn(Tail(h))

\* a call of repl(): the loop is entered and waits at the prompt
Repl ==
    /\ Idle
    /\ nlines < MaxInputs
    /\ pc' = "repl"
    /\ call' = "repl"
    /\ err' = ""
    /\ line' = <<>>
    /\ hist' = <<>>
    /\ stack0' = stack
    /\ UNCHANGED <<ext, stack, ops, tokens, pos, ret, latest, nregs, nlines>>

\* the rest of one iteration of the REPL after exec_line(line) ended with outcome r in
\* a loop that lets the exception through
ReplExec_Propagate(r) ==
    /\ DeepestIn(r.hist) <= MaxDepth
    /\ stack' = r.stack
    /\ err' = r.err
    /\ hist' = r.hist
    /\ pc' = IF r.err = "" THEN "repl" ELSE "idle"

\* the rest of one iteration of the REPL after exec_line(line) ended with outcome r:
\* an exception is caught and printed, the loop goes on
ReplExec(r) ==
    /\ DeepestIn(r.hist) <= MaxDepth
    /\ stack' = r.stack
    /\ err' = r.err
    /\ hist' = r.hist
    /\ pc' = "repl"

\* one iteration of the loop of repl() on the input line l
ReplLine(l) ==
    /\ pc = "repl"
    /\ nlines < MaxInputs
    /\ line' = l
    /\ tokens' = IF l \in {W_quit, W_clear, W_show} THEN <<>> ELSE simple_tokenize(l)
    /\ nlines' = nlines + 1
    /\ stack0' = stack
    /\ IF l = W_quit THEN pc' = "idle" /\ stack' = stack /\ err' = "" /\ hist' = <<>>
       ELSE IF l = W_clear THEN pc' = "repl" /\ stack' = <<>> /\ err' = "" /\ hist' = <<>>
       ELSE IF l = W_show THEN pc' = "repl" /\ stack' = stack /\ err' = "" /\ hist' = <<>>
       ELSE ReplExec(exec_line(l, stack, ops))
    /\ UNCHANGED <<ext, ops, pos, call, ret, latest, nregs>>

\* std::getline fails (end of input): the loop and repl() end
ReplEof ==
    /\ pc = "repl"
    /\ pc' = "idle"
    /\ err' = ""
    /\ hist' = <<>>
    /\ stack0' = stack
    /\ UNCHANGED <<ext, stack, ops, line, tokens, pos, call, ret, latest, nregs, nlines>>

\* the lines std::getline reads from a text, from position i on, cur being the
\* characters of the current line read so far
RECURSIVE GetLines(_, _, _)
GetLines(text, i, cur) ==
    IF i > Len(text) THEN (IF cur = <<>> THEN <<>> ELSE <<cur>>)
    ELSE IF text[i] = "\n" THEN <<cur>> \o GetLines(text, i + 1, <<>>)
    ELSE GetLines(text, i + 1, Append(cur, text[i]))

\* the record of one exec_line call of exec_script
LineEntry(l, pre, r) ==
    [line |-> l, pre |-> pre, post |-> r.stack, err |-> r.err, hist |-> r.hist]

\* the loop of exec_script from the k-th line on, e being the record of the exec_line
\* calls made so far; an exception leaves the loop and exec_script
RECURSIVE RunLines(_, _, _, _, _)
RECURSIVE RunLine_FreshStack(_, _, _, _, _, _)
RECURSIVE RunLine(_, _, _, _, _, _)
\* the loop going on from an empty stack after each line
RunLine_FreshStack(ls, k, reg, e, pre, r) ==
    IF r.err # ""
    THEN [stack |-> r.stack, err |-> r.err, execd |-> Append(e, LineEntry(ls[k], pre, r))]
    ELSE RunLines(ls, k + 1, <<>>, reg, Append(e, LineEntry(ls[k], pre, r)))

RunLine(ls, k, reg, e, pre, r) ==
    IF r.err # ""
    THEN [stack |-> r.stack, err |-> r.err, execd |-> Append(e, LineEntry(ls[k], pre, r))]
    ELSE RunLines(ls, k + 1, r.stack, reg, Append(e, LineEntry(ls[k], pre, r)))

RunLines(ls, k, st, reg, e) ==
    IF k > Len(ls) THEN [stack |-> st, err |-> "", execd |-> e]
    ELSE RunLine(ls, k, reg, e, st, exec_line(ls[k], st, reg))

\* WoflangInterpreter::exec_script(filename), f being the file at filename
exec_script(f, st, reg) ==
    IF ~f.readable THEN [stack |-> st, err |-> "Cannot open script", execd |-> <<>>]
    ELSE RunLines(GetLines(f.text, 1, <<>>), 1, st, reg, <<>>)

\* the greatest depth the stack has had during the lines recorded in e
RECURSIVE DeepestOf(_)
DeepestOf(e) ==
    IF e = <<>> THEN 0
    ELSE IF DeepestIn(e[1].hist) > DeepestOf(Tail(e)) THEN DeepestIn(e[1].hist)
    ELSE DeepestOf(Tail(e))

\* a call of exec_script with the outcome r
ScriptRun(r) ==
    /\ DeepestOf(r.execd) <= MaxDepth
    /\ stack' = r.stack
    /\ err' = r.err
    /\ execd' = r.execd
    /\ hist' = IF r.execd = <<>> THEN <<>> ELSE r.execd[Len(r.execd)].hist
    /\ line' = IF r.execd = <<>> THEN <<>> ELSE r.execd[Len(r.execd)].line

\* a call of exec_script(filename)
ExecScript(f) ==
    /\ Idle
    /\ nlines < MaxInputs
    /\ ScriptRun(exec_script(f, stack, ops))
    /\ call' = "exec_script"
    /\ stack0' = stack
    /\ nlines' = nlines + 1
    /\ UNCHANGED <<ops, pc, tokens, pos, ret, latest, nregs, rv, plugin_handles,
                   plugin_objects, dl, other, statics>>

(***************************************************************************)
(* Two interpreter instances in one process.  The instance 1 is the        *)
(* members `stack` and `ops`, the instance 2 is `other`; `statics` holds   *)
(* the objects of static storage duration of the plugin modules, of which  *)
(* a process has one copy however many interpreters load the module:       *)
(* chaos_unlocked (chaos_unlock_ops.cpp) and g_repl_history                *)
(* (repl_history_ops.cpp).  A handler returns the stack, the exception,    *)
(* the statics and what it wrote to std::cout.                             *)
(***************************************************************************)
W_unlock == <<":", "u", "n", "l", "o", "c", "k">>
W_chaos == <<":", "c", "h", "a", "o", "s", "?">>
W_add_history == <<"a", "d", "d", "_", "h", "i", "s", "t", "o", "r", "y">>
W_show_history == <<"s", "h", "o", "w", "_", "h", "i", "s", "t", "o", "r", "y">>
W_clear_history == <<"c", "l", "e", "a", "r", "_", "h", "i", "s", "t", "o", "r", "y">>

Effect(st, e, g, out) == [stack |-> st, err |-> e, g |-> g, out |-> out]

\* the lambda registered as ":unlock"
op_unlock(st, g) ==
    Effect(push(st, make_double(DFin(1, 1))), "", [g EXCEPT !.chaos_unlocked = TRUE],
           <<"unlocked">>)

\* the lambda registered as ":chaos?"
op_chaos_query(st, g) ==
    Effect(push(st, make_double(IF g.chaos_unlocked THEN DFin(1, 1) ELSE DFin(0, 1))), "", g,
           <<IF g.chaos_unlocked THEN "unleashed" ELSE "sleeping">>)

is_text(v) == v.type \in {"String", "Symbol"}

\* op_add_history (repl_history_ops.cpp)
op_add_history(st, g) ==
    IF st = <<>> THEN Effect(st, "", g, <<>>)
    ELSE Effect(SubSeq(st, 1, Len(st) - 1), "",
                IF is_text(st[Len(st)])
                THEN [g EXCEPT !.g_repl_history = Append(@, st[Len(st)].s)]
                ELSE g,
                <<>>)

\* op_show_history (repl_history_ops.cpp)
op_show_history(st, g) == Effect(st, "", g, <<"REPL History:">> \o g.g_repl_history)

\* op_clear_history (repl_history_ops.cpp)
op_clear_history(st, g) ==
    Effect(st, "", [g EXCEPT !.g_repl_history = <<>>], <<"REPL history cleared.">>)

StaticsHandlers ==
    {"op_unlock", "op_chaos_query", "op_add_history", "op_show_history", "op_clear_history"}

\* calling a WofOpHandler of one of the two plugins
CallStaticsHandler(h, st, g) ==
    CASE h = "op_unlock" -> op_unlock(st, g)
      [] h = "op_chaos_query" -> op_chaos_query(st, g)
      [] h = "op_add_history" -> op_add_history(st, g)
      [] h = "op_show_history" -> op_show_history(st, g)
      [] h = "op_clear_history" -> op_clear_history(st, g)

\* the tokens dispatch_token takes for a literal before it looks at the registry
IsLiteral(token) ==
    \/ token # <<>> /\ token[1] = "\"" /\ token[Len(token)] = "\"" /\ Len(token) >= 2
    \/ is_integer(token)
    \/ is_number(token)

\* dispatch_token in a process with the statics g
dispatch_token_in(token, st, reg, g) ==
    IF ~IsLiteral(token) /\ token \in DOMAIN reg /\ reg[token] \in StaticsHandlers
    THEN CallStaticsHandler(reg[token], st, g)
    ELSE Effect(dispatch_token(token, st, reg).stack, dispatch_token(token, st, reg).err,
                g, <<>>)

\* exec_line in a process with the statics g, from the k-th token on; out is what the
\* handlers have written so far
RECURSIVE RunTokensIn(_, _, _, _, _)
RunNextIn(toks, k, reg, out, r) ==
    IF r.err # "" THEN [r EXCEPT !.out = out \o r.out]
    ELSE RunTokensIn(toks, k + 1, reg, out \o r.out, r)
RunTokensIn(toks, k, reg, out, r) ==
    IF k > Len(toks) THEN [r EXCEPT !.out = out]
    ELSE RunNextIn(toks, k, reg, out, dispatch_token_in(toks[k], r.stack, reg, r.g))

exec_line_in(l, st, reg, g) ==
    RunTokensIn(simple_tokenize(l), 1, reg, <<>>, Effect(st, "", g, <<>>))

\* the register_op calls of the two register_plugin entry points
ChaosRegs == << <<W_unlock, "op_unlock">>, <<W_chaos, "op_chaos_query">> >>
HistoryRegs ==
    << <<W_add_history, "op_add_history">>, <<W_show_history, "op_show_history">>,
       <<W_clear_history, "op_clear_history">> >>
EntryPoints == { ChaosRegs, HistoryRegs }

\* the session goes on while it has made fewer than MaxCalls calls of register_op,
\* dispatch_token, exec_line, exec_script and load_plugin
InSession == nregs + nlines + Loads(dl) < MaxCalls

Instances == {1, 2}
TwoLines == { W_unlock, W_chaos, W_add_history, W_show_history, W_clear_history }
TwoValues == { make_symbol(<<"a">>) }

\* the instance i, and the step that leaves it as r and the other instance alone
Instance(i) == IF i = 1 THEN [stack |-> stack, ops |-> ops] ELSE other
Becomes(i, st, reg) ==
    IF i = 1
    THEN stack' = st /\ ops' = reg /\ other' = other
    ELSE other' = [stack |-> st, ops |-> reg] /\ stack' = stack /\ ops' = ops

TwoFrame == <<pc, tokens, pos, ret, stack0, hist, latest, rv, plugin_handles,
              plugin_objects, dl, execd>>

\* register_plugin(interp) of a plugin module called on the instance i
TwoRegisterPlugin(i, regs) ==
    /\ Idle
    /\ InSession
    /\ nregs < MaxRegs
    /\ Becomes(i, Instance(i).stack, RegisterAll(Instance(i).ops, regs))
    /\ nregs' = nregs + 1
    /\ call' = "register_plugin"
    /\ err' = ""
    /\ line' = <<>>
    /\ UNCHANGED <<TwoFrame, nlines, statics>>

\* push(v) on the instance i
TwoPush(i, v) ==
    /\ Idle
    /\ Len(Instance(i).stack) < MaxOperands
    /\ Becomes(i, push(Instance(i).stack, v), Instance(i).ops)
    /\ call' = "push"
    /\ err' = ""
    /\ line' = <<>>
    /\ UNCHANGED <<TwoFrame, nregs, nlines, statics>>

\* pop() on the instance i
TwoPop(i) ==
    /\ Idle
    /\ Becomes(i, pop(Instance(i).stack).stack, Instance(i).ops)
    /\ call' = "pop"
    /\ err' = pop(Instance(i).stack).err
    /\ line' = <<>>
    /\ UNCHANGED <<TwoFrame, nregs, nlines, statics>>

\* exec_line(l) on the instance i
TwoExecLine(i, l) ==
    /\ Idle
    /\ InSession
    /\ nlines < MaxInputs
    /\ Len(exec_line_in(l, Instance(i).stack, Instance(i).ops, statics).stack) <= MaxDepth
    /\ Becomes(i, exec_line_in(l, Instance(i).stack, Instance(i).ops, statics).stack,
               Instance(i).ops)
    /\ statics' = exec_line_in(l, Instance(i).stack, Instance(i).ops, statics).g
    /\ err' = exec_line_in(l, Instance(i).stack, Instance(i).ops, statics).err
    /\ call' = "exec_line"
    /\ line' = l
    /\ nlines' = nlines + 1
    /\ UNCHANGED <<TwoFrame, nregs>>

\* any call on the instance i
TwoStep(i) ==
    \/ \E regs \in EntryPoints : TwoRegisterPlugin(i, regs)
    \/ \E v \in TwoValues : TwoPush(i, v)
    \/ TwoPop(i)
    \/ \E l \in TwoLines : TwoExecLine(i, l)

Next ==
    \/ \E c \in RegChoices : RegisterOp(c[1], c[2])
    \/ \E l \in Lines : ExecLine(l)
    \/ DispatchStep
    \/ ExecLineReturn
    \/ \E t \in DirectTokens : DispatchToken(t)
    \/ Pop

Spec == Init /\ [][Next]_vars

\* the stack interface alone: push, pop and clear_stack called by a plugin or a host
NextStack ==
    \/ \E v \in PushValues : Push(v)
    \/ Pop
    \/ ClearStack

SpecStack == Init /\ [][NextStack]_vars

\* the value interface: values pushed by a plugin or a host, the typed pops and the
\* member functions of WofValue applied to the values on the stack
NextValue ==
    \/ \E v \in Values : PushOperand(v)
    \/ PopInt
    \/ PopDouble
    \/ PopNumeric
    \/ PopString
    \/ PopSymbol
    \/ PopBool
    \/ Equal
    \/ AsNumeric
    \/ IsNumeric

SpecValue == Init /\ [][NextValue]_vars

\* the plugin loader: modules and directories loaded into an interpreter, which is
\* then destroyed
NextPlugin ==
    \/ \E m \in Modules : LoadPlugin(m)
    \/ \E d \in Dirs : LoadPlugins(d)
    \/ Destroy

SpecPlugin == Init /\ [][NextPlugin]_vars

\* the REPL: lines typed at the prompt until quit or the end of input
NextRepl ==
    \/ Repl
    \/ \E l \in ReplInputs : ReplLine(l)
    \/ ReplEof

SpecRepl == Init /\ [][NextRepl]_vars

\* the two front ends of a host that has registered operations of its own: scripts run
\* by exec_script and lines typed at the prompt of repl()
NextFront ==
    \/ \E c \in FrontRegs : RegisterOp(c[1], c[2])
    \/ \E f \in Scripts : ExecScript(f)
    \/ Repl
    \/ \E l \in FrontInputs : ReplLine(l)
    \/ ReplEof

SpecFront == Init /\ [][NextFront]_vars

\* the source lines and the values of a session that uses every way into the registry
SessionRegs == { <<W_foo, "op_stack_dup">>, <<W_plus, "op_stack_drop">> }
SessionTokens == { W_42, W_foo, W_plus }
SessionLines == { W_foo, Line_5_0_div }
SessionScripts == { S_missing, S_fail }
SessionModules == { M_stack_ops, M_throwing, M_missing }
SessionValues == { make_int(2) }

\* a session of a host: registrations, direct dispatches, lines, scripts, plugin loads
\* (successful or failing) and stack operations, in any order
NextSession ==
    \/ InSession /\ \E c \in SessionRegs : RegisterOp(c[1], c[2])
    \/ InSession /\ \E t \in SessionTokens : DispatchToken(t)
    \/ InSession /\ \E l \in SessionLines : ExecLine(l)
    \/ DispatchStep
    \/ ExecLineReturn
    \/ InSession /\ \E f \in SessionScripts : ExecScript(f)
    \/ InSession /\ \E m \in SessionModules : LoadPlugin(m)
    \/ InSession /\ \E v \in SessionValues : PushOperand(v)
    \/ InSession /\ Pop
    \/ InSession /\ ClearStack

SpecSession == Init /\ [][NextSession]_vars

\* the built-in binary operations applied to values of every kind: a caller pushes the
\* operands and then dispatches operations
ArithTokens == { <<"+">>, <<"-">>, <<"*">>, <<"/">> }
ArithValues ==
    { make_int(2), make_double(DFin(2, 1)), make_double(DNaN), make_string(<<"a">>),
      make_symbol(<<"a">>), WofBool(FALSE), WofUnknown }

NextArith ==
    \/ nlines = 0 /\ \E v \in ArithValues : Push(v)
    \/ nlines = 0 /\ Pop
    \/ \E t \in ArithTokens : DispatchToken(t)

SpecArith == Init /\ [][NextArith]_vars

\* lines with quoted regions, closed and left open at the end of the line
QuoteLines ==
    { QUOTE, W_foo \o SP \o QUOTE, QUOTE \o W_foo, QUOTE \o W_hello_world,
      <<"4", " ">> \o QUOTE \o <<"4", " ", "4", " ">>, QUOTE \o W_plus, QUOTE \o W_big,
      QUOTE \o QUOTE, QUOTE \o W_foo \o QUOTE \o SP \o QUOTE \o <<"b", " ", "c">> }
QuoteValues == { make_int(2), make_symbol(<<"a">>) }

\* exec_line on lines with quoted regions, on stacks of up to MaxOperands values
NextQuote ==
    \/ \E v \in QuoteValues : PushOperand(v)
    \/ \E l \in QuoteLines : ExecLine(l)
    \/ DispatchStep
    \/ ExecLineReturn

SpecQuote == Init /\ [][NextQuote]_vars

\* two interpreters of one process, each loading plugins and running lines
NextTwo ==
    \/ \E i \in Instances, regs \in EntryPoints : TwoRegisterPlugin(i, regs)
    \/ \E i \in Instances, v \in TwoValues : TwoPush(i, v)
    \/ \E i \in Instances : TwoPop(i)
    \/ \E i \in Instances, l \in TwoLines : TwoExecLine(i, l)

SpecTwo == Init /\ [][NextTwo]_vars

(***************************************************************************)
(* Properties.                                                             *)
(***************************************************************************)
\* the last call was exec_line and it has ended (returned or thrown)
ExecLineEnded == call = "exec_line" /\ pc = "idle"

Top(st) == st[Len(st)]
Below(st, n) == SubSeq(st, 1, Len(st) - n)

\* the handlers a line has invoked
CalledIn(h) == {h[j].called : j \in 1..Len(h)}

\* a source line that is one double-quoted literal with content c
QuotedLine(c) == QUOTE \o c \o QUOTE

QuotedContents == {W_42, W_plus, W_foo, <<>>, <<" ", "4">>, W_hello_world}

\* C1: exec_line pushes, for a double-quoted literal, exactly one String value
\* holding the inner content verbatim and invokes no operation for it, whatever
\* the content looks like; `"hello world" dup` on an empty stack, dup being
\* op_stack_dup, ends with two String("hello world") values.
C1_QuotedLiteralPushesString ==
    /\ \A c \in QuotedContents :
          (ExecLineEnded /\ line = QuotedLine(c))
              => /\ err = ""
                 /\ stack = Append(stack0, make_string(c))
                 /\ CalledIn(hist) \subseteq {<<>>}
    /\ (ExecLineEnded /\ line = Line_hello_dup /\ stack0 = <<>>
           /\ W_dup \in DOMAIN ops /\ ops[W_dup] = "op_stack_dup")
          => stack = <<make_string(W_hello_world), make_string(W_hello_world)>>

\* a token of the numeric-literal grammars
NumericLiteral(token) == is_integer(token) \/ is_number(token)

\* a token wrapped in a pair of double quotes
StringLiteral(token) ==
    Len(token) >= 2 /\ token[1] = "\"" /\ token[Len(token)] = "\""

\* C2: a token that is a numeric literal is pushed as its numeric value and no
\* callback is invoked for it, also when an operation is registered under that
\* very name: with "42" registered, dispatching 42 pushes Integer 42.
C2_NumericLiteralBeforeRegistry ==
    \A j \in 1..Len(hist) :
        (hist[j].token \in DOMAIN ops /\ NumericLiteral(hist[j].token))
            => /\ hist[j].called = <<>>
               /\ hist[j].err = ""
               /\ Len(hist[j].post) = Len(hist[j].pre) + 1
               /\ Below(hist[j].post, 1) = hist[j].pre
               /\ is_numeric(Top(hist[j].post))
               /\ hist[j].token = W_42 => Top(hist[j].post) = make_int(42)

C2_Witness ==
    \E j \in 1..Len(hist) :
        /\ hist[j].token = W_42
        /\ W_42 \in DOMAIN ops
        /\ hist[j].post = Append(hist[j].pre, make_int(42))

\* C3: a token that is neither a string literal nor a numeric literal invokes the
\* callback registered under its text exactly once, dispatch pushing nothing
\* itself, or, when no operation has that name, is pushed as one Symbol holding
\* the raw text, with no callback invoked.
C3_OperationBeforeSymbol ==
    \A j \in 1..Len(hist) :
        (~StringLiteral(hist[j].token) /\ ~NumericLiteral(hist[j].token))
            => IF hist[j].token \in DOMAIN ops
               THEN /\ hist[j].called = <<ops[hist[j].token]>>
                    /\ hist[j].post = CallHandler(ops[hist[j].token], hist[j].pre).stack
                    /\ hist[j].err = CallHandler(ops[hist[j].token], hist[j].pre).err
               ELSE /\ hist[j].called = <<>>
                    /\ hist[j].err = ""
                    /\ hist[j].post = Append(hist[j].pre, make_symbol(hist[j].token))

C3_Witness ==
    /\ \E j \in 1..Len(hist) :
          /\ hist[j].token = W_foo
          /\ hist[j].called = <<"op_stack_dup">>
          /\ hist[j].pre # <<>>
          /\ hist[j].post = Append(hist[j].pre, Top(hist[j].pre))
    /\ \E j \in 1..Len(hist) :
          /\ hist[j].called = <<>>
          /\ hist[j].post = Append(hist[j].pre, make_symbol(hist[j].token))

\* C4: exec_line dispatches the tokens of the line one by one from left to right;
\* when the dispatch of token k throws, exec_line ends with that exception, no
\* token after k is dispatched, and the stack keeps what the tokens before k did.
C4_LeftToRightAbortOnFailure ==
    call = "exec_line" =>
        /\ tokens = simple_tokenize(line)
        /\ Len(hist) <= Len(tokens)
        /\ \A j \in 1..Len(hist) : hist[j].k = j /\ hist[j].token = tokens[j]
        /\ \A j \in 1..(Len(hist) - 1) :
              hist[j].err = "" /\ hist[j + 1].pre = hist[j].post
        /\ hist # <<>> => hist[1].pre = stack0 /\ stack = hist[Len(hist)].post
        /\ hist = <<>> => stack = stack0
        /\ (hist # <<>> /\ hist[Len(hist)].err # "")
              => pc = "idle" /\ err = hist[Len(hist)].err
        /\ (pc = "idle" /\ err = "") => Len(hist) = Len(tokens)

C4_Witness ==
    /\ ExecLineEnded
    /\ err # ""
    /\ Len(hist) >= 2
    /\ Len(hist) < Len(tokens)
    /\ stack # stack0
    /\ stack = hist[Len(hist) - 1].post

\* the dispatches of the last line that threw
Failed(h) == {j \in 1..Len(h) : h[j].err # ""}

\* the line invoked built-in operations only
BuiltinsOnly(h) == \A j \in 1..Len(h) : \A i \in 1..Len(h[j].called) : h[j].called[i] \in BuiltinHandlers

\* C5 as stated: when a token of a line of literals, symbols and built-in
\* operations fails, the stack is the stack left by the last completed token.
C5_FailureLeavesNoPartialEffect ==
    (call = "exec_line" /\ BuiltinsOnly(hist))
        => \A j \in Failed(hist) : hist[j].post = hist[j].pre /\ stack = hist[j].pre

\* C5 amended: when a token of a line of literals, symbols and built-in
\* operations fails, the stack is the stack left by the last completed token,
\* except after a division by zero, which has removed the two operands of "/".
C5_FailureEffectExceptDivision ==
    (call = "exec_line" /\ BuiltinsOnly(hist))
        => \A j \in Failed(hist) :
              /\ stack = hist[j].post
              /\ IF hist[j].err = "Division by zero"
                 THEN hist[j].called = <<"div">> /\ hist[j].post = Below(hist[j].pre, 2)
                 ELSE hist[j].post = hist[j].pre

C5_Witness ==
    /\ ExecLineEnded
    /\ BuiltinsOnly(hist)
    /\ \E j \in Failed(hist) :
          /\ hist[j].err = "Stack underflow for +"
          /\ Len(hist[j].pre) = 1
          /\ stack = hist[j].pre

\* C6: "/" on a stack (of two values at least) whose top coerces to numeric zero
\* throws "Division by zero" and leaves the stack without its top two values and
\* without a result; `5 0 /` on an empty stack ends with an empty stack.
C6_DivisionByZeroLosesOperands ==
    /\ \A j \in 1..Len(hist) :
          (hist[j].called = <<"div">> /\ Len(hist[j].pre) >= 2
              /\ DEq(as_numeric(Top(hist[j].pre)), DZero))
             => /\ hist[j].err = "Division by zero"
                /\ hist[j].post = Below(hist[j].pre, 2)
    /\ (ExecLineEnded /\ line = Line_5_0_div /\ stack0 = <<>>)
          => err = "Division by zero" /\ stack = <<>>

C6_Witness ==
    /\ ExecLineEnded
    /\ line = Line_5_0_div
    /\ Len(hist) = 3
    /\ hist[3].pre = <<make_int(5), make_int(0)>>
    /\ hist[3].called = <<"div">>
    /\ err = "Division by zero"
    /\ stack = <<>>

BinaryHandlers == {"add", "sub", "mul", "div"}

UnderflowOf(h) ==
    CASE h = "add" -> "Stack underflow for +"
      [] h = "sub" -> "Stack underflow for -"
      [] h = "mul" -> "Stack underflow for *"
      [] h = "div" -> "Stack underflow for /"

\* C7: pop() on an empty stack, and each of + - * / on a stack of depth below 2,
\* throws a stack underflow and leaves the stack as it was.
C7_UnderflowCheckedBeforeMutation ==
    /\ (call = "pop" /\ stack0 = <<>>)
          => err = "Stack underflow in pop()" /\ stack = <<>>
    /\ \A j \in 1..Len(hist) : \A h \in BinaryHandlers :
          (hist[j].called = <<h>> /\ Len(hist[j].pre) < 2)
             => hist[j].err = UnderflowOf(h) /\ hist[j].post = hist[j].pre

C7_Witness ==
    \E j \in 1..Len(hist) :
        /\ hist[j].called = <<"div">>
        /\ Len(hist[j].pre) = 1
        /\ hist[j].err = "Stack underflow for /"
        /\ stack = hist[j].pre

\* C8: push(v) followed by pop() returns a value equal to v by operator== and
\* leaves the stack as it was before the push, for every value v.
C8_PushPopRoundTrip ==
    [][(call = "push" /\ call' = "pop")
          => /\ err' = ""
             /\ WofEq(ret', Top(stack))
             /\ stack' = stack0]_vars

\* C9: dispatching a name invokes the callback of the most recent registration
\* of that name and no other, also for a built-in name registered again; a
\* registration never throws.
C9_LastRegistrationWins ==
    /\ DOMAIN ops = DOMAIN latest
    /\ \A j \in 1..Len(hist) :
          hist[j].called # <<>> => hist[j].called = <<latest[hist[j].token]>>
    /\ call = "register_op" => err = ""

C9_Witness ==
    /\ nregs >= 1
    /\ \E j \in 1..Len(hist) :
          /\ hist[j].token = W_plus
          /\ hist[j].called = <<"op_stack_drop">>
          /\ hist[j].err = ""

\* the exact quotient relation r = n/d for a finite double r
IsRatio(r, n, d) == r.cls = "fin" /\ r.num * d = n * r.den

\* r is the result of the built-in h on the numeric values x (lower) and y (top)
Arith(h, r, x, y) ==
    IF x.cls = "fin" /\ y.cls = "fin"
    THEN CASE h = "add" -> IsRatio(r, x.num * y.den + y.num * x.den, x.den * y.den)
           [] h = "sub" -> IsRatio(r, x.num * y.den - y.num * x.den, x.den * y.den)
           [] h = "mul" -> IsRatio(r, x.num * y.num, x.den * y.den)
           [] h = "div" -> IsRatio(r, x.num * y.den, x.den * y.num)
    ELSE CASE h = "add" -> r = DAdd(x, y)
           [] h = "sub" -> r = DSub(x, y)
           [] h = "mul" -> r = DMul(x, y)
           [] h = "div" -> r = DDiv(x, y)

\* C10: on two numeric operands a (lower) and b (top) each of + - * / (b not zero
\* for /) replaces them by one Double holding a + b, a - b, a * b, a / b;
\* `3 4 +` on an empty stack leaves the single value Double(7).
C10_ArithmeticOnNumericOperands ==
    /\ \A j \in 1..Len(hist) : \A h \in BinaryHandlers :
          (/\ hist[j].called = <<h>>
           /\ Len(hist[j].pre) >= 2
           /\ is_numeric(Top(hist[j].pre))
           /\ is_numeric(Top(Below(hist[j].pre, 1)))
           /\ (h = "div" => ~DEq(as_numeric(Top(hist[j].pre)), DZero)))
             => /\ hist[j].err = ""
                /\ Len(hist[j].post) = Len(hist[j].pre) - 1
                /\ Below(hist[j].post, 1) = Below(hist[j].pre, 2)
                /\ Top(hist[j].post).type = "Double"
                /\ Top(hist[j].post) = make_double(Top(hist[j].post).d)
                /\ Arith(h, Top(hist[j].post).d,
                         as_numeric(Top(Below(hist[j].pre, 1))),
                         as_numeric(Top(hist[j].pre)))
    /\ (ExecLineEnded /\ line = Line_3_4_plus /\ stack0 = <<>> /\ ops[W_plus] = "add")
          => err = "" /\ stack = <<make_double(DFin(7, 1))>>

C10_Witness ==
    /\ ExecLineEnded
    /\ line = Line_3_4_plus
    /\ hist[3].pre = <<make_int(3), make_int(4)>>
    /\ hist[3].called = <<"add">>
    /\ stack = <<make_double(DFin(7, 1))>>

(***************************************************************************)
(* The typed pops and the value operations (SpecValue).                    *)
(***************************************************************************)
NumericPops == {"pop_int", "pop_double", "pop_numeric"}

\* C11: on a non-empty stack pop_int, pop_double and pop_numeric never throw, whatever the
\* type of the top value: they remove it, pop_double and pop_numeric return its as_numeric
\* and pop_int returns that number truncated toward zero (0 for String, Symbol, Unknown)
C11_NumericPopsNeverFail ==
    (call \in NumericPops /\ stack0 # <<>>) =>
        /\ err = ""
        /\ stack = Below(stack0, 1)
        /\ call # "pop_int" => rv = DoubleValue(as_numeric(Top(stack0)))
        /\ (call = "pop_int" /\ as_numeric(Top(stack0)).cls = "fin")
               => rv = IntValue(Trunc(as_numeric(Top(stack0))))

\* C12: pop_symbol on a non-empty stack removes the top value and returns its text when
\* its type is Symbol and throws "value is not a symbol" for any other type; on an
\* empty stack it throws the underflow error of pop() and leaves the stack empty
C12_PopSymbolTypeChecked ==
    call = "pop_symbol" =>
        IF stack0 = <<>>
        THEN err = "Stack underflow in pop()" /\ stack = <<>>
        ELSE IF Top(stack0).type = "Symbol"
             THEN err = "" /\ rv = TextValue(Top(stack0).s) /\ stack = Below(stack0, 1)
             ELSE err = "pop_symbol: value is not a symbol"

\* pop_symbol has thrown on a String and, another time, returned the text of a Symbol
C12_Witness ==
    /\ call = "pop_symbol"
    /\ stack0 # <<>>
    /\ Top(stack0) = make_string(<<"a">>)
    /\ err = "pop_symbol: value is not a symbol"

\* the payloads of two values are the same, alternative by alternative
SamePayload(a, b) == a.i = b.i /\ a.d = b.d /\ a.s = b.s /\ a.b = b.b

\* the operands of the last a == b
EqLeft == stack[Len(stack) - 1]
EqRight == stack[Len(stack)]

\* C13: a == b is true only if the types, the payloads and the unit tags of a and b
\* match; an Integer and a Double are never equal, nor are a String and a Symbol
C13_EqualityKindSensitive ==
    call = "operator==" =>
        /\ rv.b => /\ EqLeft.type = EqRight.type
                   /\ SamePayload(EqLeft, EqRight)
                   /\ EqLeft.unit = EqRight.unit
        /\ {EqLeft.type, EqRight.type} = {"Integer", "Double"} => ~rv.b
        /\ {EqLeft.type, EqRight.type} = {"String", "Symbol"} => ~rv.b

\* make_int(2) == make_double(2.0) has been evaluated, to false
C13_Witness ==
    /\ call = "operator=="
    /\ EqLeft = make_int(2)
    /\ EqRight = make_double(DFin(2, 1))
    /\ rv = BoolValue(FALSE)

\* C14: as_numeric never throws; it is the integer for an Integer, the payload for a
\* Double and 0 for a String, a Symbol and an Unknown; is_numeric is true exactly for
\* Integer and Double
C14_NumericCoercionTotal ==
    /\ call = "as_numeric" =>
        /\ err = ""
        /\ rv.kind = "double"
        /\ Top(stack).type = "Integer" => IsRatio(rv.d, Top(stack).i, 1)
        /\ Top(stack).type = "Double" => rv.d = Top(stack).d
        /\ Top(stack).type \in {"String", "Symbol", "Unknown"} => rv.d = DZero
    /\ call = "is_numeric" =>
        /\ err = ""
        /\ Top(stack).type \in {"Integer", "Double"} => rv = BoolValue(TRUE)
        /\ Top(stack).type \in {"String", "Symbol", "Unknown"} => rv = BoolValue(FALSE)

\* as_numeric has been applied to a Symbol and has returned 0
C14_Witness ==
    /\ call = "as_numeric"
    /\ Top(stack) = make_symbol(<<"a">>)
    /\ rv = DoubleValue(DZero)

(***************************************************************************)
(* Integer literals of any length (Spec).                                  *)
(***************************************************************************)
\* C15: every dispatched token that matches [+-]?[0-9]+, whatever its number of digits,
\* pushes exactly one Integer value and throws nothing
C15_IntegerLiteralAlwaysPushed ==
    \A j \in 1..Len(hist) :
        is_integer(hist[j].token) =>
            /\ hist[j].err = ""
            /\ Len(hist[j].post) = Len(hist[j].pre) + 1
            /\ Below(hist[j].post, 1) = hist[j].pre
            /\ Top(hist[j].post).type = "Integer"

(***************************************************************************)
(* The plugin loader (SpecPlugin).                                         *)
(***************************************************************************)
\* the positions of the events (ev, h, arg) in the history of loader calls
Events(ev, h, arg) ==
    {j \in 1..Len(dl) : dl[j].ev = ev /\ dl[j].h = h /\ dl[j].arg = arg}
\* the positions of the events of one kind
EventsOf(ev) == {j \in 1..Len(dl) : dl[j].ev = ev}
\* the handles dlopen has returned
Opened == {dl[j].h : j \in EventsOf("dlopen")} \ {0}
\* the position where the destructor was entered
Teardown == CHOOSE j \in EventsOf("~WoflangInterpreter") : TRUE
Range(f) == {f[j] : j \in DOMAIN f}

\* C16: after N successful load_plugin calls (N >= 0) the destructor closes each of the
\* N recorded handles exactly once, closes no handle that a failed load has already
\* closed, and does not fail when N is 0
C16_TeardownReleasesEachHandleOnce ==
    pc = "destroyed" =>
        /\ Len(plugin_handles) = Cardinality(EventsOf("loaded"))
        /\ \A j \in EventsOf("loaded") :
              /\ dl[j].h \in Range(plugin_handles)
              /\ Cardinality(Events("dlclose", dl[j].h, "")) = 1
              /\ \A k \in Events("dlclose", dl[j].h, "") : k > Teardown
        /\ \A h \in Opened : Cardinality(Events("dlclose", h, "")) <= 1
        /\ EventsOf("loaded") = {} => err = ""

\* an interpreter has been destroyed after a load that succeeded and a load that failed
\* and closed its handle
C16_Witness ==
    /\ pc = "destroyed"
    /\ EventsOf("loaded") # {}
    /\ \E k \in EventsOf("dlclose") : k < Teardown

\* C17: a module that exports register_plugin has it called exactly once and
\* create_plugin is neither looked up nor called, also when it exports both; create_plugin
\* is called only when register_plugin is absent, and then register_ops is invoked
\* exactly once on its object and the object is kept in plugin_objects
C17_RegisterPluginTriedFirst ==
    \A j \in EventsOf("dlopen") :
        dl[j].h # 0 =>
            /\ ModuleAt(dl[j].arg).reg =>
                  /\ Cardinality(Events("call", dl[j].h, "register_plugin")) = 1
                  /\ Events("dlsym", dl[j].h, "create_plugin") = {}
                  /\ Events("call", dl[j].h, "create_plugin") = {}
            /\ Events("call", dl[j].h, "create_plugin") # {} =>
                  /\ ~ModuleAt(dl[j].arg).reg
                  /\ Events("call", dl[j].h, "register_plugin") = {}
            /\ (~ModuleAt(dl[j].arg).reg /\ ModuleAt(dl[j].arg).create
                /\ ~ModuleAt(dl[j].arg).null /\ ~ModuleAt(dl[j].arg).throws) =>
                  /\ Cardinality(Events("call", dl[j].h, "create_plugin")) = 1
                  /\ Cardinality(Events("call", dl[j].h, "register_ops")) = 1
                  /\ Cardinality({k \in DOMAIN plugin_objects :
                                      plugin_objects[k] = dl[j].h}) = 1

\* a module that exports both entry points and a module that exports create_plugin
\* only have been loaded
C17_Witness ==
    /\ \E j \in EventsOf("dlopen") :
          dl[j].arg = M_both.name /\ Events("call", dl[j].h, "register_plugin") # {}
    /\ \E j \in EventsOf("dlopen") :
          dl[j].arg = M_legacy.name /\ dl[j].h \in Range(plugin_objects)

\* the members the loader must leave alone when it fails
LoaderFrame == ops' = ops /\ stack' = stack /\ plugin_handles' = plugin_handles

\* C18: load_plugin throws "Failed to load plugin" when dlopen fails and "No
\* register_plugin/create_plugin in plugin" when the module exports neither entry point;
\* in both cases ops, stack and plugin_handles are unchanged, and in the second the
\* handle is closed before the throw
C18_LoadFailuresLeaveNoTrace ==
    [][call' = "load_plugin" =>
          /\ ~ModuleAt(dl'[Len(dl) + 1].arg).opens =>
                /\ err' = "Failed to load plugin"
                /\ LoaderFrame
                /\ dl'[Len(dl')] = Ev("dlopen", 0, dl'[Len(dl) + 1].arg)
          /\ (/\ ModuleAt(dl'[Len(dl) + 1].arg).opens
              /\ ~ModuleAt(dl'[Len(dl) + 1].arg).reg
              /\ ~ModuleAt(dl'[Len(dl) + 1].arg).create) =>
                /\ err' = "No register_plugin/create_plugin in plugin"
                /\ LoaderFrame
                /\ dl'[Len(dl')] = Ev("dlclose", NextHandle(dl), "")]_vars

\* load_plugin has failed on a module without entry points after an earlier load
C18_Witness ==
    /\ call = "load_plugin"
    /\ err = "No register_plugin/create_plugin in plugin"
    /\ dl[Len(dl)].ev = "dlclose"
    /\ plugin_handles # <<>>

\* C19: load_plugins on a path that does not exist or is not a directory returns
\* without error and changes neither ops, stack nor plugin_handles (nothing is loaded);
\* on a directory it calls load_plugin only for regular files directly in it whose
\* extension is a module extension
C19_DirectoryScanFilter ==
    [][call' = "load_plugins" =>
          /\ (~DirAt(dl'[Len(dl) + 1].arg).exists \/ ~DirAt(dl'[Len(dl) + 1].arg).isdir) =>
                /\ err' = ""
                /\ LoaderFrame
                /\ Len(dl') = Len(dl) + 1
          /\ \A j \in (Len(dl) + 2)..Len(dl') :
                dl'[j].ev = "load_plugin" =>
                    \E k \in DOMAIN DirAt(dl'[Len(dl) + 1].arg).entries :
                        /\ DirAt(dl'[Len(dl) + 1].arg).entries[k].name = dl'[j].arg
                        /\ DirAt(dl'[Len(dl) + 1].arg).entries[k].kind = "file"
                        /\ DirAt(dl'[Len(dl) + 1].arg).entries[k].ext \in ModuleExtensions]_vars

\* the directory with a module, a sub-directory, a text file and a .dylib module has
\* been scanned: the two modules are loaded, nothing else was tried
C19_Witness ==
    /\ call = "load_plugins"
    /\ err = ""
    /\ \E j \in EventsOf("load_plugins") :
          /\ dl[j].arg = D_plugins.name
          /\ {dl[k].arg : k \in {n \in EventsOf("load_plugin") : n > j}}
                = {"stack_ops.so", "legacy.dylib"}
    /\ Len(plugin_handles) >= 2

(***************************************************************************)
(* The REPL (SpecRepl).                                                    *)
(***************************************************************************)
\* the last input line was passed to exec_line, which threw
ReplLineFailed == call = "repl" /\ err # "" /\ hist # <<>>

\* C20: a failure of exec_line in the REPL does not end the loop; the next input line is
\* read and executed, and it starts from the stack the failed line left (the stack is
\* neither cleared nor restored)
C20_ReplSurvivesFailure ==
    [][ReplLineFailed =>
          /\ pc = "repl"
          /\ stack = hist[Len(hist)].post
          /\ (line' # line \/ nlines' # nlines) =>
                /\ nlines' = nlines + 1
                /\ stack0' = stack
                /\ hist' # <<>> => hist'[1].pre = stack]_vars

\* two lines have been typed and the second, `4`, was executed on the lone Integer 3:
\* the stack that only the line `3 + 4` leaves, whose `+` fails after the 3 is pushed
C20_Witness ==
    /\ call = "repl"
    /\ pc = "repl"
    /\ nlines = 2
    /\ line = W_4
    /\ err = ""
    /\ stack0 = <<make_int(3)>>
    /\ hist # <<>>
    /\ hist[1].pre = <<make_int(3)>>
    /\ stack = <<make_int(3), make_int(4)>>

(***************************************************************************)
(* The script runner and the two front ends (SpecFront).                   *)
(***************************************************************************)
\* the lines of a script file
LinesOf(f) == GetLines(f.text, 1, <<>>)
\* the lines the last exec_script has passed to exec_line, in the order of the calls
LinesRun(e) == [k \in 1..Len(e) |-> e[k].line]

\* C21: when a line of a script fails during exec_script the run goes on: every line of
\* a readable file is executed, in file order, also the lines after one that failed
C21_ScriptSurvivesFailure ==
    [][\A f \in Scripts :
          (ExecScript(f) /\ f.readable) => LinesRun(execd') = LinesOf(f)]_vars

C23_FrontEndsRouteThroughExecLine ==
    [][/\ \A l \in FrontInputs :
             ReplLine(l) =>
                 /\ stack' = exec_line(l, stack, ops).stack
                 /\ hist' = exec_line(l, stack, ops).hist
                 /\ l \in DOMAIN ops => hist' # <<>> /\ hist'[1].called = <<ops[l]>>
        /\ \A f \in Scripts :
             (ExecScript(f) /\ f.readable) =>
                 /\ LinesRun(execd') = LinesOf(f)
                 /\ \A k \in 1..Len(execd') :
                       execd'[k].line \in DOMAIN ops =>
                           execd'[k].hist # <<>> /\ execd'[k].hist[1].called = <<ops[execd'[k].line]>>]_vars

(***************************************************************************)
(* The registry over a session (SpecSession).                              *)
(***************************************************************************)
\* the names registered at construction: + - * / .s
BuiltinNames == DOMAIN ConstructorOps

\* C24: the registry never shrinks: every step of a session (register_op, dispatch_token,
\* exec_line, exec_script, load_plugin whether it succeeds or fails, push, pop,
\* clear_stack) leaves every registered name registered, the built-ins + - * / .s are
\* registered in every state, and the dispatch of a token that is not a registered name
\* (a literal or a symbol) leaves the registry as it is
C24_RegistryNeverShrinks ==
    /\ BuiltinNames \subseteq DOMAIN ops
    /\ [][/\ DOMAIN ops \subseteq DOMAIN ops'
          /\ BuiltinNames \subseteq DOMAIN ops'
          /\ \A t \in SessionTokens :
                (DispatchToken(t) /\ t \notin DOMAIN ops) => ops' = ops
          /\ (DispatchStep /\ tokens[pos] \notin DOMAIN ops) => ops' = ops]_vars

\* a load_plugin call has failed after its entry point had registered a name, in a
\* session that had registered names of its own before: all of them are registered
C24_Witness ==
    /\ call = "load_plugin"
    /\ err = "register_plugin failed"
    /\ nregs > 0
    /\ \E n \in DOMAIN ops \ BuiltinNames : n # W_foo
    /\ W_foo \in DOMAIN ops

(***************************************************************************)
(* Two instances in one process (SpecTwo).                                 *)
(***************************************************************************)
\* what a caller of exec_line(l) on the instance j observes in a process with the
\* statics g: the stack, the exception and the output
Observed(j, l, g) ==
    [stack |-> exec_line_in(l, Instance(j).stack, Instance(j).ops, g).stack,
     err |-> exec_line_in(l, Instance(j).stack, Instance(j).ops, g).err,
     out |-> exec_line_in(l, Instance(j).stack, Instance(j).ops, g).out]

\* C25: a call on one of two interpreter instances of a process (push, pop, the
\* registrations of a plugin, exec_line) changes neither the stack nor the registry of
\* the other instance, nor what any line executed on the other instance produces
C25_InstancesIndependent ==
    [][\A i \in Instances :
          TwoStep(i) =>
              /\ (i = 1 => other' = other)
              /\ (i = 2 => stack' = stack /\ ops' = ops)
              /\ \A l \in TwoLines : Observed(3 - i, l, statics') = Observed(3 - i, l, statics)]_vars

(***************************************************************************)
(* Quoted regions left open at the end of the line (SpecQuote).            *)
(***************************************************************************)
\* the value of in_string after the loop of simple_tokenize: every `"` flips it
RECURSIVE in_string_after(_)
in_string_after(l) ==
    IF l = <<>> THEN FALSE
    ELSE IF l[Len(l)] = "\"" THEN ~in_string_after(SubSeq(l, 1, Len(l) - 1))
    ELSE in_string_after(SubSeq(l, 1, Len(l) - 1))

\* the content of the quoted region a line ends in: what follows the last `"`
RECURSIVE OpenRegion(_)
OpenRegion(l) ==
    IF l = <<>> \/ l[Len(l)] = "\"" THEN <<>>
    ELSE Append(OpenRegion(SubSeq(l, 1, Len(l) - 1)), l[Len(l)])

\* C26: when a line ends inside a quoted region exec_line gets the tokens it would get
\* with the closing quote present, the last of them being the content of the region,
\* and the dispatch of that token raises nothing
C26_UnterminatedQuoteClosedAtEnd ==
    (call = "exec_line" /\ in_string_after(line)) =>
        /\ tokens = simple_tokenize(line \o QUOTE)
        /\ tokens # <<>>
        /\ tokens[Len(tokens)] = OpenRegion(line)
        /\ (pc = "idle" /\ Len(hist) = Len(tokens)) => err = ""

(***************************************************************************)
(* Module handles on the exit paths of load_plugin (SpecPlugin).           *)
(***************************************************************************)
\* the handles dlclose has been called on
Closed == {dl[j].h : j \in EventsOf("dlclose")}

\* C27: every handle load_plugin has opened is, once the call is over (by a return, by
\* an exception or otherwise), either released by dlclose or recorded in plugin_handles
C27_NoHandleLost ==
    \A h \in Opened : h \in Closed \/ h \in Range(plugin_handles)

(***************************************************************************)
(* The order of the destructor (SpecPlugin).                               *)
(***************************************************************************)
\* the names whose registered callback is code of the module behind the handle h
CallbacksOf(h) ==
    {n \in DOMAIN ops :
        \E j \in EventsOf("dlopen") :
            /\ dl[j].h = h
            /\ \E k \in DOMAIN ModuleAt(dl[j].arg).regs :
                  ModuleAt(dl[j].arg).regs[k] = <<n, ops[n]>>}

\* C28: in the destructor every plugin object is deleted, and the registry holding the
\* callbacks of a module is destroyed, before the handle of that module is closed
C28_ObjectsDestroyedBeforeModule ==
    pc = "destroyed" =>
        \A j \in EventsOf("dlclose") :
            j > Teardown =>
                /\ \A k \in Events("delete", dl[j].h, "") : k < j
                /\ Cardinality(Events("delete", dl[j].h, "")) =
                       Cardinality({k \in DOMAIN plugin_objects : plugin_objects[k] = dl[j].h})
                /\ CallbacksOf(dl[j].h) # {} => \A k \in EventsOf("~ops") : k < j

(***************************************************************************)
(* A directory scan that meets a failing module (SpecPlugin).              *)
(***************************************************************************)
\* the names of the entries of d that load_plugins passes to load_plugin, in the order
\* the directory iterator yields them
RECURSIVE WantedNames(_)
WantedNames(entries) ==
    IF entries = <<>> THEN <<>>
    ELSE (IF Wanted(entries[1]) THEN <<entries[1].name>> ELSE <<>>)
         \o WantedNames(Tail(entries))

\* the paths of the load_plugin calls recorded in the events log, in order
RECURSIVE Attempted(_)
Attempted(log) ==
    IF log = <<>> THEN <<>>
    ELSE (IF log[1].ev = "load_plugin" THEN <<log[1].arg>> ELSE <<>>)
         \o Attempted(Tail(log))

\* the events "loaded" recorded in the events log
LoadedIn(log) == {j \in 1..Len(log) : log[j].ev = "loaded"}

\* the scan recorded in log, of the entries w, that ended with e: the files attempted
\* are the first ones of w, all of w unless the scan failed, and the last attempt is the
\* one that failed
ScanStopsAtFailure(log, w, e) ==
    /\ Len(Attempted(log)) <= Len(w)
    /\ Attempted(log) = SubSeq(w, 1, Len(Attempted(log)))
    /\ e = "" => Len(Attempted(log)) = Len(w)
    /\ e = "" => Cardinality(LoadedIn(log)) = Len(w)
    /\ e # "" => Cardinality(LoadedIn(log)) = Len(Attempted(log)) - 1

\* the modules loaded during the scan recorded in log stay loaded in the members after
\* it: the handle is recorded and the names the module registered are registered
EarlierStayLoaded(log, handles0, handles1, reg1) ==
    /\ Len(handles1) = Len(handles0) + Cardinality(LoadedIn(log))
    /\ SubSeq(handles1, 1, Len(handles0)) = handles0
    /\ \A j \in LoadedIn(log) :
          /\ log[j].h \in Range(handles1)
          /\ \A k \in DOMAIN ModuleAt(log[j].arg).regs :
                ModuleAt(log[j].arg).regs[k][1] \in DOMAIN reg1

\* C29: a scan of a directory attempts its module files in order and stops at the first
\* one whose load_plugin fails, with that failure as its own; no later file is
\* attempted, and every module loaded before it in the scan stays loaded: its handle is
\* in plugin_handles and its operations are registered
C29_ScanStopsAtFirstFailure ==
    [][(call' = "load_plugins" /\ DirAt(dl'[Len(dl) + 1].arg).exists
            /\ DirAt(dl'[Len(dl) + 1].arg).isdir) =>
          /\ ScanStopsAtFailure(SubSeq(dl', Len(dl) + 2, Len(dl')),
                                WantedNames(DirAt(dl'[Len(dl) + 1].arg).entries), err')
          /\ EarlierStayLoaded(SubSeq(dl', Len(dl) + 2, Len(dl')), plugin_handles,
                               plugin_handles', ops')]_vars

\* the directory bad has been scanned: stack_ops.so is loaded, none.so has failed and
\* legacy.so was not attempted
C29_Witness ==
    /\ call = "load_plugins"
    /\ err = "No register_plugin/create_plugin in plugin"
    /\ \E j \in EventsOf("load_plugins") :
          /\ dl[j].arg = D_bad.name
          /\ Attempted(SubSeq(dl, j + 1, Len(dl))) = <<"stack_ops.so", "none.so">>
    /\ plugin_handles # <<>>
    /\ W_dup \in DOMAIN ops

(***************************************************************************)
(* The built-in binary operations on operands of every kind (SpecArith).   *)
(***************************************************************************)
\* the number a value stands for in "-" and "*": its own when numeric, else 0
Coerced(v) ==
    IF v.type = "Integer" THEN IntToDouble(v.i)
    ELSE IF v.type = "Double" THEN v.d
    ELSE DZero

\* the value "+", "-" or "*" pushes for the lower operand a and the top operand b
Expected(t, a, b) ==
    CASE t = <<"+">> ->
             IF a.type \in {"Integer", "Double"} /\ b.type \in {"Integer", "Double"}
             THEN make_double(DAdd(Coerced(a), Coerced(b)))
             ELSE make_string(to_string(a) \o to_string(b))
      [] t = <<"-">> -> make_double(DSub(Coerced(a), Coerced(b)))
      [] t = <<"*">> -> make_double(DMul(Coerced(a), Coerced(b)))

====
